---- MODULE Spec2Model ----
(***************************************************************************)
(* Model of the exec server of atest-ext-store-terminal                    *)
(* (src/pkg/execserver.go): the streaming endpoint                         *)
(* /extensionProxy/terminal/exec with its session map cmdWriterCache, the  *)
(* process manager, the child processes and the goroutines each streaming  *)
(* request starts.                                                         *)
(*                                                                         *)
(* Every HTTP request is served on its own goroutine; a program counter    *)
(* pc[r] names the statement the handler of request r executes next.  A    *)
(* streaming request spawns at most one child process, so a process, its   *)
(* pipes, channels and goroutines are indexed by the request that spawned  *)
(* it, and that index also stands for the OS pid.                          *)
(***************************************************************************)
EXTENDS Integers, Sequences, FiniteSets, TLC

\* ------------------------------------------------------------- bounds
MaxReq == 2          \* requests served in one run
MaxLines == 1        \* lines the children write to their output pipes, altogether
MaxBytes == 2        \* bytes the clients and shells of the pty bridge produce, altogether

Req == 1..MaxReq
TermIds == {"t1", "t2"}
Streams == {"stdout", "stderr"}
Methods == {"POST", "DELETE", "GET"}
ExitStatuses == {"ok", "code"}     \* how a child ends on its own: exit 0, exit 3

VARIABLES
    pc,              \* pc[r]: next statement of the handler of request r
    req,             \* req[r]: the decoded request (method, TerminalId, Cmd)
    c,               \* c[r]: the handler's local copy of a looked-up map entry
    result,          \* result[r]: what the handler answered
    cmdWriterCache,  \* the session map, keyed by terminal id
    processes,       \* processManager.processes: the set of registered pids
    proc,            \* proc[p]: "none", "running" or "exited"
    status,          \* status[p]: how the process ended
    childStdin,      \* childStdin[p]: the child still holds its stdin open
    stdinPipe,       \* stdinPipe[p]: the server's write end of the child's stdin
    stdinData,       \* stdinData[p]: what has been written to the child's stdin
    produced,        \* produced[p][s]: number of lines read from pipe s of child p
    rd,              \* rd[p][s]: the reader goroutine of stream s
    wt,              \* wt[p]: the goroutine waiting for the process
    exitCode,        \* exitCode[r]: the handler's exitCode variable
    errorMsg,        \* errorMsg[r]: the handler's errorMsg variable
    events,          \* events[r]: the frames written to the response of request r
    reqCtxDone,      \* reqCtxDone[r]: r.Context() of request r is cancelled
    ctxDone,         \* ctxDone[r]: the execution context of request r is cancelled
    pmDeletes,       \* pmDeletes[p]: who executed delete(processManager.processes, p)
    listing,         \* listing[r]: the terminals a GET answered
    crashed,         \* the runtime aborted the server on a concurrent map access
    input,           \* input[r]: the decoded body of an input request (pid, input)
    stdinBuf,        \* stdinBuf[p]: ProcessInfo.Stdin, the bufio.Writer on the stdin pipe
    orphan,          \* orphan[r]: a subprocess of the command of one-shot request r
                     \*            holds the write ends of its output pipes
    written,         \* written[r][s]: lines written to output pipe s of one-shot request r
    captured,        \* captured[r][s]: lines copied from pipe s into the bytes.Buffer
    resp,            \* resp[r]: the execResponse of one-shot request r
    conn,            \* conn[r]: the WebSocket connection of bridge request r
    ptmx,            \* ptmx[r]: the pseudo-terminal of the shell of bridge request r
    toPty,           \* toPty[r]: the goroutine copying WebSocket -> pty
    toWS,            \* toWS[r]: the goroutine copying pty -> WebSocket
    wsIn,            \* wsIn[r]: messages the client sent, not yet read by the server
    ptyIn,           \* ptyIn[r]: the bytes written to the pty, in order
    ptyOut,          \* ptyOut[r]: bytes the shell wrote to the pty, not yet read
    wsOut,           \* wsOut[r]: the messages sent to the client, in order
    sent,            \* sent[r]: how many bytes the client and the shell have produced
    raw,             \* raw[r]: endpoint, method and body of a request answered at once
    mutex,           \* processManager.mutex: the holders of the write and of the read lock
    at,              \* at[g]: the line goroutine g executes next (statement-level view)
    exists,          \* exists[r]: what the lookup at line 422 of input handler r found
    spins,           \* spins[r]: passes of r's loop that received from a closed channel
    inj,             \* inj[i]: next statement of input handler i (statement-level view)
    bw               \* bw: the bufio.Writer of process 1's ProcessInfo.Stdin (buf, n)

reqVars == <<pc, req, c, result, listing>>
regVars == <<cmdWriterCache, processes, pmDeletes>>
childVars == <<proc, status, childStdin, produced>>
pipeVars == <<stdinPipe, stdinData>>
goVars == <<rd, wt, exitCode, errorMsg>>
ioVars == <<events, reqCtxDone, ctxDone>>
inVars == <<input, stdinBuf>>
execVars == <<orphan, written, captured, resp>>
wsVars == <<conn, ptmx, toPty, toWS, wsIn, ptyIn, ptyOut, wsOut, sent>>
httpVars == <<raw>>
lockVars == <<mutex, at, exists>>
loopVars == <<spins>>
injVars == <<inj, bw>>
apiVars == <<inVars, execVars, wsVars, httpVars, lockVars, loopVars, injVars>>
vars == <<reqVars, regVars, childVars, pipeVars, goVars, ioVars, crashed, apiVars>>

\* ------------------------------------------------------------- helpers
NoReq == [method |-> "none", TerminalId |-> "", TerminalName |-> "", Cmd |-> ""]
NoReader == [st |-> "off", line |-> 0]
NoEntry == [Writer |-> 0, Context |-> 0, DoneChannel |-> 0, ResponseWriter |-> 0,
            TerminalId |-> "", TerminalName |-> ""]

NoResp == [Stdout |-> 0, Stderr |-> 0, ExitCode |-> 0, Error |-> "none"]
\* A copying goroutine of the bridge: where it is, and the bytes it holds.
NoCopier == [st |-> "off", data |-> <<>>]
NoRaw == [endpoint |-> "", method |-> "", body |-> ""]
NoInput == [Pid |-> 0, Input |-> ""]
\* A bufio.Writer: the bytes it buffers and its sticky error.
NoWriter == [buf |-> <<>>, err |-> FALSE]

\* A Go map: a function whose domain is the set of keys present.
MapPut(m, k, v) == [x \in DOMAIN m \cup {k} |-> IF x = k THEN v ELSE m[x]]
MapDelete(m, k) == [x \in DOMAIN m \ {k} |-> m[x]]

\* The TerminalCache value a handler stores for its own process.
TerminalCache(r) ==
    [Writer |-> r, Context |-> r, DoneChannel |-> r, ResponseWriter |-> 0,
     TerminalId |-> req[r].TerminalId, TerminalName |-> req[r].TerminalName]

\* ExitError.ExitCode(): the child's code, or -1 when a signal ended it.
ExitCodeOf(st) == CASE st = "ok" -> 0 [] st = "code" -> 3 [] OTHER -> -1
ErrorOf(st) ==
    CASE st = "ok" -> "" [] st = "code" -> "exit status 3" [] OTHER -> "signal: killed"

\* The handler of request r returns: net/http cancels r.Context().
Returned(r) == [reqCtxDone EXCEPT ![r] = TRUE]

\* The goroutines that touch processManager: the handler of a streaming
\* request, the waiter it starts, and the handler of an input request.
Goroutines == {"handler", "waiter", "input"} \X Req
NotStarted == 0
Finished == 1

\* Two handlers of /api/exec/input that run at the same time for the pid of
\* request 1's process, and the size of the bufio.Writer's buffer (enough
\* for both inputs, as 4096 is for a line typed by a user).
Injectors == {1, 2}
BufCap == 4

Init ==
    /\ pc = [r \in Req |-> "idle"]
    /\ req = [r \in Req |-> NoReq]
    /\ c = [r \in Req |-> NoEntry]
    /\ listing = [r \in Req |-> <<>>]
    /\ result = [r \in Req |-> "none"]
    /\ cmdWriterCache = <<>>
    /\ processes = {}
    /\ proc = [r \in Req |-> "none"]
    /\ status = [r \in Req |-> "none"]
    /\ childStdin = [r \in Req |-> FALSE]
    /\ stdinPipe = [r \in Req |-> "none"]
    /\ stdinData = [r \in Req |-> <<>>]
    /\ produced = [r \in Req |-> [s \in Streams |-> 0]]
    /\ rd = [r \in Req |-> [s \in Streams |-> NoReader]]
    /\ wt = [r \in Req |-> "off"]
    /\ exitCode = [r \in Req |-> 0]
    /\ errorMsg = [r \in Req |-> ""]
    /\ events = [r \in Req |-> <<>>]
    /\ reqCtxDone = [r \in Req |-> FALSE]
    /\ ctxDone = [r \in Req |-> FALSE]
    /\ pmDeletes = [r \in Req |-> <<>>]
    /\ crashed = FALSE
    /\ input = [r \in Req |-> NoInput]
    /\ stdinBuf = [r \in Req |-> NoWriter]
    /\ orphan = [r \in Req |-> FALSE]
    /\ written = [r \in Req |-> [s \in Streams |-> 0]]
    /\ captured = [r \in Req |-> [s \in Streams |-> 0]]
    /\ resp = [r \in Req |-> NoResp]
    /\ conn = [r \in Req |-> "none"]
    /\ ptmx = [r \in Req |-> "none"]
    /\ toPty = [r \in Req |-> NoCopier]
    /\ toWS = [r \in Req |-> NoCopier]
    /\ wsIn = [r \in Req |-> <<>>]
    /\ ptyIn = [r \in Req |-> <<>>]
    /\ ptyOut = [r \in Req |-> <<>>]
    /\ wsOut = [r \in Req |-> <<>>]
    /\ sent = [r \in Req |-> [client |-> 0, shell |-> 0]]
    /\ raw = [r \in Req |-> NoRaw]
    /\ mutex = [writer |-> {}, readers |-> {}]
    /\ at = [g \in Goroutines |-> NotStarted]
    /\ exists = [r \in Req |-> FALSE]
    /\ spins = [r \in Req |-> 0]
    /\ inj = [i \in Injectors |-> "idle"]
    /\ bw = [buf |-> [k \in 1..BufCap |-> 0], n |-> 0]

\* ------------------------------------------------------------- requests
\* The display name the client of request r gives its terminal.
TermName(r) == "terminal " \o ToString(r)

\* A request arrives and its body is decoded (lines 164-170, 210-213).  The
\* two terminal ids are interchangeable, so the first request uses "t1".
Arrive(r) ==
    /\ ~crashed
    /\ pc[r] = "idle"
    /\ \E m \in Methods, t \in TermIds :
        /\ r = 1 => t = "t1"
        /\ req' = [req EXCEPT ![r] =
                     [method |-> m,
                      TerminalId |-> IF m = "GET" THEN "" ELSE t,
                      TerminalName |-> IF m = "POST" THEN TermName(r) ELSE "",
                      Cmd |-> IF m = "POST" THEN "ls" ELSE ""]]
        /\ pc' = [pc EXCEPT ![r] =
                     CASE m = "POST" -> "plookup"
                       [] m = "DELETE" -> "dlookup"
                       [] OTHER -> "list"]
    /\ UNCHANGED <<c, result, listing, regVars, childVars, pipeVars, goVars, ioVars,
                   crashed, apiVars>>

\* The client of a streaming request goes away: net/http cancels r.Context()
\* (as it does when a handler returns).  The handler never reads r.Context(),
\* so nothing else changes.
ClientDisconnect(r) ==
    /\ pc[r] = "loop"
    /\ ~reqCtxDone[r]
    /\ reqCtxDone' = [reqCtxDone EXCEPT ![r] = TRUE]
    /\ UNCHANGED <<reqVars, regVars, childVars, pipeVars, goVars, events, ctxDone,
                   crashed, apiVars>>

\* ------------------------------------------------------------- DELETE
\* Mutant of DeleteLookup: when the id has no entry, the writers of all the
\* entries there are get closed.
DeleteLookup_MissClosesAll(r) ==
    /\ ~crashed
    /\ pc[r] = "dlookup"
    /\ IF req[r].TerminalId \in DOMAIN cmdWriterCache
       THEN LET e == cmdWriterCache[req[r].TerminalId] IN
            /\ c' = [c EXCEPT ![r] = e]
            /\ stdinPipe' = [stdinPipe EXCEPT ![e.Writer] = "closed"]
            /\ pc' = [pc EXCEPT ![r] = "ddelete"]
            /\ UNCHANGED <<result, reqCtxDone>>
       ELSE /\ pc' = [pc EXCEPT ![r] = "done"]
            /\ result' = [result EXCEPT ![r] = "200"]
            /\ reqCtxDone' = Returned(r)
            /\ stdinPipe' = [p \in Req |->
                                IF \E t \in DOMAIN cmdWriterCache : cmdWriterCache[t].Writer = p
                                THEN "closed" ELSE stdinPipe[p]]
            /\ UNCHANGED c
    /\ UNCHANGED <<req, listing, regVars, childVars, stdinData,
                   goVars, events, ctxDone, crashed, apiVars>>

\* if c, ok := cmdWriterCache[req.TerminalId]; ok { c.Writer.Close();
\* c.Context.Done() ...: Done() only returns the context's channel.
DeleteLookup(r) ==
    /\ ~crashed
    /\ pc[r] = "dlookup"
    /\ IF req[r].TerminalId \in DOMAIN cmdWriterCache
       THEN LET e == cmdWriterCache[req[r].TerminalId] IN
            /\ c' = [c EXCEPT ![r] = e]
            /\ stdinPipe' = [stdinPipe EXCEPT ![e.Writer] = "closed"]
            /\ pc' = [pc EXCEPT ![r] = "ddelete"]
            /\ UNCHANGED <<result, reqCtxDone>>
       ELSE /\ pc' = [pc EXCEPT ![r] = "done"]
            /\ result' = [result EXCEPT ![r] = "200"]
            /\ reqCtxDone' = Returned(r)
            /\ UNCHANGED <<c, stdinPipe>>
    /\ UNCHANGED <<req, listing, regVars, childVars, stdinData,
                   goVars, events, ctxDone, crashed, apiVars>>

\* delete(cmdWriterCache, req.TerminalId); return
DeleteEntry(r) ==
    /\ ~crashed
    /\ pc[r] = "ddelete"
    /\ cmdWriterCache' = MapDelete(cmdWriterCache, req[r].TerminalId)
    /\ pc' = [pc EXCEPT ![r] = "done"]
    /\ result' = [result EXCEPT ![r] = "200"]
    /\ reqCtxDone' = Returned(r)
    /\ UNCHANGED <<req, c, listing, processes, pmDeletes, childVars, pipeVars, goVars,
                   events, ctxDone, crashed, apiVars>>

\* ------------------------------------------------------------- GET
\* The orders in which a range over a map with key set S can visit the keys.
Orders(S) == {q \in [1..Cardinality(S) -> S] : \A k \in S : \E i \in DOMAIN q : q[i] = k}

\* The Terminal the listing reports for a map entry.
TerminalOf(e) == [TerminalId |-> e.TerminalId, TerminalName |-> e.TerminalName]
DefaultTerminal == [TerminalId |-> "default", TerminalName |-> "Default"]

\* Mutant of Keys: the fallback for an empty slice is missing.
Keys_NoDefault(m) ==
    {[i \in 1..Cardinality(DOMAIN m) |-> TerminalOf(m[q[i]])] : q \in Orders(DOMAIN m)}

\* The slices the range over cmdWriterCache can build, one Terminal for each
\* entry; the synthetic "default" terminal when the slice is empty.
Keys(m) ==
    IF DOMAIN m = {}
    THEN {<<DefaultTerminal>>}
    ELSE {[i \in 1..Cardinality(DOMAIN m) |-> TerminalOf(m[q[i]])] : q \in Orders(DOMAIN m)}

List(r) ==
    /\ ~crashed
    /\ pc[r] = "list"
    /\ \E keys \in Keys(cmdWriterCache) : listing' = [listing EXCEPT ![r] = keys]
    /\ pc' = [pc EXCEPT ![r] = "done"]
    /\ result' = [result EXCEPT ![r] = "200"]
    /\ reqCtxDone' = Returned(r)
    /\ UNCHANGED <<req, c, regVars, childVars, pipeVars, goVars, events, ctxDone,
                   crashed, apiVars>>

\* ------------------------------------------------------------- POST
\* Mutant of PostLookup: any entry of the map is taken, whatever its key.
PostLookup_AnyEntry(r) ==
    /\ ~crashed
    /\ pc[r] = "plookup"
    /\ IF DOMAIN cmdWriterCache # {}
       THEN /\ \E t \in DOMAIN cmdWriterCache :
                 c' = [c EXCEPT ![r] = [cmdWriterCache[t] EXCEPT !.ResponseWriter = r]]
            /\ pc' = [pc EXCEPT ![r] = "write"]
       ELSE /\ pc' = [pc EXCEPT ![r] = "spawn"]
            /\ UNCHANGED c
    /\ UNCHANGED <<req, result, listing, regVars, childVars, pipeVars, goVars, ioVars,
                   crashed, apiVars>>

\* if c, ok := cmdWriterCache[req.TerminalId]; ok { c.ResponseWriter = w
\* c is a copy of the map's value: the assignment does not reach the map.
PostLookup(r) ==
    /\ ~crashed
    /\ pc[r] = "plookup"
    /\ IF req[r].TerminalId \in DOMAIN cmdWriterCache
       THEN /\ c' = [c EXCEPT ![r] =
                       [cmdWriterCache[req[r].TerminalId] EXCEPT !.ResponseWriter = r]]
            /\ pc' = [pc EXCEPT ![r] = "write"]
       ELSE /\ pc' = [pc EXCEPT ![r] = "spawn"]
            /\ UNCHANGED c
    /\ UNCHANGED <<req, result, listing, regVars, childVars, pipeVars, goVars, ioVars,
                   crashed, apiVars>>

\* A write to the stdin pipe succeeds while the server's end is open and the
\* child still holds the other end.
WriteOK(p) == stdinPipe[p] = "open" /\ childStdin[p]

\* Mutant of PostWrite: the return after a successful write is missing, so
\* the request goes on to spawn.
PostWrite_NoReturn(r) ==
    /\ ~crashed
    /\ pc[r] = "write"
    /\ IF WriteOK(c[r].Writer)
       THEN /\ stdinData' = [stdinData EXCEPT ![c[r].Writer] =
                               Append(@, req[r].Cmd \o "\n")]
            /\ pc' = [pc EXCEPT ![r] = "spawn"]
       ELSE /\ pc' = [pc EXCEPT ![r] = "sendDone"]
            /\ UNCHANGED stdinData
    /\ UNCHANGED <<req, c, result, listing, regVars, childVars, stdinPipe,
                   goVars, ioVars, crashed, apiVars>>

\* _, err := c.Writer.Write([]byte(req.Cmd + "\n")); if err == nil { return }
PostWrite(r) ==
    /\ ~crashed
    /\ pc[r] = "write"
    /\ IF WriteOK(c[r].Writer)
       THEN /\ stdinData' = [stdinData EXCEPT ![c[r].Writer] =
                               Append(@, req[r].Cmd \o "\n")]
            /\ pc' = [pc EXCEPT ![r] = "done"]
            /\ result' = [result EXCEPT ![r] = "written"]
            /\ reqCtxDone' = Returned(r)
       ELSE /\ pc' = [pc EXCEPT ![r] = "sendDone"]
            /\ UNCHANGED <<stdinData, result, reqCtxDone>>
    /\ UNCHANGED <<req, c, listing, regVars, childVars, stdinPipe,
                   goVars, events, ctxDone, crashed, apiVars>>

\* delete(cmdWriterCache, req.TerminalId) after c.DoneChannel <- true returned
PostDeleteStale(r) ==
    /\ ~crashed
    /\ pc[r] = "delStale"
    /\ cmdWriterCache' = MapDelete(cmdWriterCache, req[r].TerminalId)
    /\ pc' = [pc EXCEPT ![r] = "spawn"]
    /\ UNCHANGED <<req, c, result, listing, processes, pmDeletes, childVars, pipeVars,
                   goVars, ioVars, crashed, apiVars>>

\* Mutant of Spawn: the start frame is not written.
Spawn_NoStartFrame(r) ==
    /\ ~crashed
    /\ pc[r] = "spawn"
    /\ proc' = [proc EXCEPT ![r] = "running"]
    /\ childStdin' = [childStdin EXCEPT ![r] = TRUE]
    /\ stdinPipe' = [stdinPipe EXCEPT ![r] = "open"]
    /\ processes' = processes \cup {r}
    /\ pc' = [pc EXCEPT ![r] = "insert"]
    /\ UNCHANGED <<req, c, result, listing, cmdWriterCache, pmDeletes, status, produced,
                   stdinData, goVars, ioVars, crashed, apiVars>>

\* Lines 235-294: the context, the command, its three pipes, cmd.Start(), the
\* registration in processManager and the start frame.
Spawn(r) ==
    /\ ~crashed
    /\ pc[r] = "spawn"
    /\ proc' = [proc EXCEPT ![r] = "running"]
    /\ childStdin' = [childStdin EXCEPT ![r] = TRUE]
    /\ stdinPipe' = [stdinPipe EXCEPT ![r] = "open"]
    /\ processes' = processes \cup {r}
    /\ events' = [events EXCEPT ![r] = Append(@, [type |-> "start", pid |-> r])]
    /\ pc' = [pc EXCEPT ![r] = "insert"]
    /\ UNCHANGED <<req, c, result, listing, cmdWriterCache, pmDeletes, status, produced,
                   stdinData, goVars, reqCtxDone, ctxDone, crashed, apiVars>>

\* Mutant of SpawnFail: the failure is detected after the registration in
\* processManager.
SpawnFail_Registered(r) ==
    /\ ~crashed
    /\ pc[r] = "spawn"
    /\ processes' = processes \cup {r}
    /\ result' = [result EXCEPT ![r] = "500"]
    /\ ctxDone' = [ctxDone EXCEPT ![r] = TRUE]
    /\ reqCtxDone' = Returned(r)
    /\ pc' = [pc EXCEPT ![r] = "done"]
    /\ UNCHANGED <<req, c, listing, cmdWriterCache, pmDeletes, childVars, pipeVars,
                   goVars, events, crashed, apiVars>>

\* A pipe cannot be created or cmd.Start() fails: 500, and the deferred cancel.
SpawnFail(r) ==
    /\ ~crashed
    /\ pc[r] = "spawn"
    /\ result' = [result EXCEPT ![r] = "500"]
    /\ ctxDone' = [ctxDone EXCEPT ![r] = TRUE]
    /\ reqCtxDone' = Returned(r)
    /\ pc' = [pc EXCEPT ![r] = "done"]
    /\ UNCHANGED <<req, c, listing, regVars, childVars, pipeVars, goVars, events,
                   crashed, apiVars>>

\* cmdWriterCache[req.TerminalId] = TerminalCache{...}, then the three go
\* statements (lines 296-346).
Insert(r) ==
    /\ ~crashed
    /\ pc[r] = "insert"
    /\ cmdWriterCache' = MapPut(cmdWriterCache, req[r].TerminalId, TerminalCache(r))
    /\ rd' = [rd EXCEPT ![r] = [s \in Streams |-> [st |-> "scan", line |-> 0]]]
    /\ wt' = [wt EXCEPT ![r] = "wait"]
    /\ pc' = [pc EXCEPT ![r] = "loop"]
    /\ UNCHANGED <<req, c, result, listing, processes, pmDeletes, childVars, pipeVars,
                   exitCode, errorMsg, ioVars, crashed, apiVars>>

\* delete(cmdWriterCache, req.TerminalId) after the loop; the handler returns
\* and its deferred cancel() runs.
DeleteFinal(r) ==
    /\ ~crashed
    /\ pc[r] = "delFinal"
    /\ cmdWriterCache' = MapDelete(cmdWriterCache, req[r].TerminalId)
    /\ ctxDone' = [ctxDone EXCEPT ![r] = TRUE]
    /\ pc' = [pc EXCEPT ![r] = "done"]
    /\ result' = [result EXCEPT ![r] = "streamed"]
    /\ reqCtxDone' = Returned(r)
    /\ UNCHANGED <<req, c, listing, processes, pmDeletes, childVars, pipeVars, goVars,
                   events, crashed, apiVars>>

\* ------------------------------------------------------------- the child
\* The child closes its standard input and keeps running.
ChildCloseStdin(p) ==
    /\ proc[p] = "running"
    /\ childStdin[p]
    /\ childStdin' = [childStdin EXCEPT ![p] = FALSE]
    /\ UNCHANGED <<reqVars, regVars, proc, status, produced, pipeVars, goVars, ioVars,
                   crashed, apiVars>>

\* The child exits on its own, with code 0 or with a nonzero code.
ChildExit(p) ==
    /\ proc[p] = "running"
    /\ \E st \in ExitStatuses : status' = [status EXCEPT ![p] = st]
    /\ proc' = [proc EXCEPT ![p] = "exited"]
    /\ childStdin' = [childStdin EXCEPT ![p] = FALSE]
    /\ UNCHANGED <<reqVars, regVars, produced, pipeVars, goVars, ioVars, crashed, apiVars>>

\* exec.CommandContext: once the context is cancelled the command's process
\* is killed, if it is still running.
CtxKill(p) ==
    /\ ~crashed
    /\ ctxDone[p]
    /\ proc[p] = "running"
    /\ proc' = [proc EXCEPT ![p] = "exited"]
    /\ status' = [status EXCEPT ![p] = "signal"]
    /\ childStdin' = [childStdin EXCEPT ![p] = FALSE]
    /\ UNCHANGED <<reqVars, regVars, produced, pipeVars, goVars, ioVars, crashed, apiVars>>

\* ------------------------------------------------------------- goroutines
\* The lines read so far from all output pipes.
RECURSIVE SumOver(_, _)
SumOver(f, S) ==
    IF S = {} THEN 0 ELSE LET x == CHOOSE y \in S : TRUE IN f[x] + SumOver(f, S \ {x})
LinesRead == SumOver([p \in Req |-> SumOver(produced[p], Streams)], Req)

\* for scanner.Scan() { ch <- scanner.Text() }: Scan returns the next line
\* the running child writes.  A line the child wrote and no reader took
\* before the pipe was closed is one the server never sees, so the child's
\* write and the reader's read are one step.
ReaderScanUpTo(p, n) ==
    /\ ~crashed
    /\ proc[p] = "running"
    /\ LinesRead < n
    /\ \E s \in Streams :
        /\ rd[p][s].st = "scan"
        /\ produced' = [produced EXCEPT ![p][s] = @ + 1]
        /\ rd' = [rd EXCEPT ![p][s] = [st |-> "send", line |-> produced[p][s] + 1]]
    /\ UNCHANGED <<reqVars, regVars, proc, status, childStdin, pipeVars, wt,
                   exitCode, errorMsg, ioVars, crashed, apiVars>>

ReaderScan(p) == ReaderScanUpTo(p, MaxLines)

\* Scan returns false at end of stream, that is once the child has exited;
\* close(ch).
ReaderClose(p) ==
    /\ ~crashed
    /\ proc[p] = "exited"
    /\ \E s \in Streams :
        /\ rd[p][s].st = "scan"
        /\ rd' = [rd EXCEPT ![p][s] = [st |-> "closed", line |-> 0]]
    /\ UNCHANGED <<reqVars, regVars, childVars, pipeVars, wt, exitCode, errorMsg,
                   ioVars, crashed, apiVars>>

\* err := cmd.Wait() returns once the process has exited; Wait closes the
\* server's ends of the three pipes.  Then exitCode and errorMsg are set.
WaiterWait(p) ==
    /\ ~crashed
    /\ wt[p] = "wait"
    /\ proc[p] = "exited"
    /\ stdinPipe' = [stdinPipe EXCEPT ![p] = "closed"]
    /\ exitCode' = [exitCode EXCEPT ![p] = ExitCodeOf(status[p])]
    /\ errorMsg' = [errorMsg EXCEPT ![p] = ErrorOf(status[p])]
    /\ wt' = [wt EXCEPT ![p] = "remove"]
    /\ UNCHANGED <<reqVars, regVars, childVars, stdinData, rd, ioVars, crashed, apiVars>>

\* processManager.mutex.Lock(); delete(processManager.processes, pid); Unlock()
WaiterRemove(p) ==
    /\ ~crashed
    /\ wt[p] = "remove"
    /\ processes' = processes \ {p}
    /\ pmDeletes' = [pmDeletes EXCEPT ![p] = Append(@, "waiter")]
    /\ wt' = [wt EXCEPT ![p] = "send"]
    /\ UNCHANGED <<reqVars, cmdWriterCache, childVars, pipeVars, rd, exitCode, errorMsg,
                   ioVars, crashed, apiVars>>

\* ------------------------------------------------------------- the loop
\* The goroutines blocked in a send on doneCh of request r: its waiter, and
\* every handler that found r's entry and failed to write to its pipe.
DoneSenders(r) ==
    (IF wt[r] = "send" THEN {0} ELSE {})
        \cup {q \in Req : pc[q] = "sendDone" /\ c[q].DoneChannel = r}

\* Mutant of SelectReady: the execution context is derived from the request's
\* context, so a disconnect makes the cancellation case ready.
SelectReady_RequestCtx(r) ==
    {<<s, 0>> : s \in {x \in Streams : rd[r][x].st \in {"send", "closed"}}}
        \cup {<<"done", q>> : q \in DoneSenders(r)}
        \cup (IF ctxDone[r] \/ reqCtxDone[r] THEN {<<"cancel", 0>>} ELSE {})

\* The cases of the select a receive can proceed on.
SelectReady(r) ==
    {<<s, 0>> : s \in {x \in Streams : rd[r][x].st \in {"send", "closed"}}}
        \cup {<<"done", q>> : q \in DoneSenders(r)}
        \cup (IF ctxDone[r] THEN {<<"cancel", 0>>} ELSE {})

\* Mutant of RecvLine: the frame is written but the line stays with the
\* reader, which offers it again.
RecvLine_Repeat(r, s) ==
    /\ IF rd[r][s].st = "send"
       THEN /\ events' = [events EXCEPT ![r] =
                            Append(@, [type |-> s, data |-> rd[r][s].line])]
            /\ UNCHANGED rd
       ELSE UNCHANGED <<events, rd>>
    /\ UNCHANGED <<reqVars, regVars, childVars, pipeVars, wt, exitCode, errorMsg,
                   reqCtxDone, ctxDone, crashed, apiVars>>

\* case line, ok := <-ch: a frame for a line; nothing when ch is closed.
RecvLine(r, s) ==
    /\ IF rd[r][s].st = "send"
       THEN /\ events' = [events EXCEPT ![r] =
                            Append(@, [type |-> s, data |-> rd[r][s].line])]
            /\ rd' = [rd EXCEPT ![r][s] = [st |-> "scan", line |-> 0]]
       ELSE UNCHANGED <<events, rd>>
    /\ UNCHANGED <<reqVars, regVars, childVars, pipeVars, wt, exitCode, errorMsg,
                   reqCtxDone, ctxDone, crashed, apiVars>>

\* Mutant of RecvDone: loop = false is missing, the loop goes on.
RecvDone_NoStop(r, q) ==
    /\ events' = [events EXCEPT ![r] =
                    Append(@, [type |-> "end", exitCode |-> exitCode[r],
                               error |-> errorMsg[r]])]
    /\ stdinPipe' = [stdinPipe EXCEPT ![r] = "closed"]
    /\ IF q = 0
       THEN /\ wt' = [wt EXCEPT ![r] = "end"]
            /\ UNCHANGED pc
       ELSE /\ pc' = [pc EXCEPT ![q] = "delStale"]
            /\ UNCHANGED wt
    /\ UNCHANGED <<req, c, result, listing, regVars, childVars, stdinData, rd, exitCode,
                   errorMsg, reqCtxDone, ctxDone, crashed, apiVars>>

\* case <-doneCh: the end frame, stdinPipe.Close(), loop = false.  The sender
\* q (0: the waiter) gets past its send.
RecvDone(r, q) ==
    /\ events' = [events EXCEPT ![r] =
                    Append(@, [type |-> "end", exitCode |-> exitCode[r],
                               error |-> errorMsg[r]])]
    /\ stdinPipe' = [stdinPipe EXCEPT ![r] = "closed"]
    /\ IF q = 0
       THEN /\ wt' = [wt EXCEPT ![r] = "end"]
            /\ pc' = [pc EXCEPT ![r] = "delFinal"]
       ELSE /\ pc' = [pc EXCEPT ![r] = "delFinal", ![q] = "delStale"]
            /\ UNCHANGED wt
    /\ UNCHANGED <<req, c, result, listing, regVars, childVars, stdinData, rd, exitCode, errorMsg, reqCtxDone, ctxDone, crashed, apiVars>>

\* case <-ctx.Done(): kill, the error frame, stdinPipe.Close(), the removal
\* from processManager, loop = false.
RecvCancel(r) ==
    /\ IF proc[r] = "running"
       THEN /\ proc' = [proc EXCEPT ![r] = "exited"]
            /\ status' = [status EXCEPT ![r] = "signal"]
            /\ childStdin' = [childStdin EXCEPT ![r] = FALSE]
       ELSE UNCHANGED <<proc, status, childStdin>>
    /\ events' = [events EXCEPT ![r] =
                    Append(@, [type |-> "error", data |-> "Command cancelled"])]
    /\ stdinPipe' = [stdinPipe EXCEPT ![r] = "closed"]
    /\ processes' = processes \ {r}
    /\ pmDeletes' = [pmDeletes EXCEPT ![r] = Append(@, "loop")]
    /\ pc' = [pc EXCEPT ![r] = "delFinal"]
    /\ UNCHANGED <<req, c, result, listing, cmdWriterCache, produced, stdinData, goVars, reqCtxDone, ctxDone, crashed, apiVars>>

\* One pass of for loop { select { ... } }: one ready case is taken.
SelectCase(r, b) ==
    CASE b[1] = "done" -> RecvDone(r, b[2])
      [] b[1] = "cancel" -> RecvCancel(r)
      [] OTHER -> RecvLine(r, b[1])

LoopSelect(r) ==
    /\ ~crashed
    /\ pc[r] = "loop"
    /\ \E b \in SelectReady(r) : SelectCase(r, b)

\* ------------------------------------------------------------- the map
\* cmdWriterCache is a plain map shared by all handlers, with no lock.
MapReadPC == {"plookup", "dlookup", "list"}
MapWritePC == {"delStale", "insert", "delFinal", "ddelete"}

\* Two handlers are at unsynchronised accesses of the map, one of them a write.
MapRace(r, q) ==
    /\ r # q
    /\ pc[r] \in MapWritePC
    /\ pc[q] \in MapReadPC \cup MapWritePC

\* The Go runtime detects a concurrent map access and aborts the server
\* ("fatal error: concurrent map writes"); the children are left behind.
Crash ==
    /\ ~crashed
    /\ \E r, q \in Req : MapRace(r, q)
    /\ crashed' = TRUE
    /\ UNCHANGED <<reqVars, regVars, childVars, pipeVars, goVars, ioVars, apiVars>>

Next ==
    \/ \E r \in Req :
        \/ Arrive(r)
        \/ ClientDisconnect(r)
        \/ DeleteLookup(r)
        \/ DeleteEntry(r)
        \/ List(r)
        \/ PostLookup(r)
        \/ PostWrite(r)
        \/ PostDeleteStale(r)
        \/ Spawn(r)
        \/ SpawnFail(r)
        \/ Insert(r)
        \/ LoopSelect(r)
        \/ DeleteFinal(r)
        \/ ChildCloseStdin(r)
        \/ ChildExit(r)
        \/ CtxKill(r)
        \/ ReaderScan(r)
        \/ ReaderClose(r)
        \/ WaiterWait(r)
        \/ WaiterRemove(r)
    \/ Crash

Spec == Init /\ [][Next]_vars

\* The steps of the server's own goroutines: the Go scheduler runs every
\* goroutine that can take a step.  Arrivals, disconnects, what a child does
\* and the runtime's abort are not forced to happen.
Fairness ==
    \A r \in Req :
        /\ WF_vars(DeleteLookup(r))
        /\ WF_vars(DeleteEntry(r))
        /\ WF_vars(List(r))
        /\ WF_vars(PostLookup(r))
        /\ WF_vars(PostWrite(r))
        /\ WF_vars(PostDeleteStale(r))
        /\ WF_vars(Spawn(r))
        /\ WF_vars(Insert(r))
        /\ WF_vars(LoopSelect(r))
        /\ WF_vars(DeleteFinal(r))
        /\ WF_vars(CtxKill(r))
        /\ WF_vars(ReaderClose(r))
        /\ WF_vars(WaiterWait(r))
        /\ WF_vars(WaiterRemove(r))

FairSpec == Spec /\ Fairness

\* ------------------------------------------------------------- /api/exec/input
Inputs == {"y\n"}

\* A POST to /api/exec/input arrives and its body {pid, input} is decoded
\* (lines 395-419).
ArriveInput(r) ==
    /\ ~crashed
    /\ pc[r] = "idle"
    /\ \E p \in Req, i \in Inputs :
        input' = [input EXCEPT ![r] = [Pid |-> p, Input |-> i]]
    /\ req' = [req EXCEPT ![r] = [NoReq EXCEPT !.method = "INPUT"]]
    /\ pc' = [pc EXCEPT ![r] = "ilookup"]
    /\ UNCHANGED <<c, result, listing, regVars, childVars, pipeVars, goVars, ioVars,
                   crashed, stdinBuf, execVars, wsVars, httpVars, lockVars, loopVars, injVars>>

\* Mutant of InputLookup: the result of the lookup is ignored.
InputLookup_NoCheck(r) ==
    /\ ~crashed
    /\ pc[r] = "ilookup"
    /\ pc' = [pc EXCEPT ![r] = "iwrite"]
    /\ UNCHANGED <<req, c, result, listing, regVars, childVars, pipeVars, goVars,
                   ioVars, crashed, apiVars>>

\* RLock(); processInfo, exists := processManager.processes[req.Pid];
\* RUnlock(); if !exists { 404 "process not found" }
InputLookup(r) ==
    /\ ~crashed
    /\ pc[r] = "ilookup"
    /\ IF input[r].Pid \in processes
       THEN /\ pc' = [pc EXCEPT ![r] = "iwrite"]
            /\ UNCHANGED <<result, reqCtxDone>>
       ELSE /\ pc' = [pc EXCEPT ![r] = "done"]
            /\ result' = [result EXCEPT ![r] = "404"]
            /\ reqCtxDone' = Returned(r)
    /\ UNCHANGED <<req, c, listing, regVars, childVars, pipeVars, goVars, events,
                   ctxDone, crashed, apiVars>>

\* processInfo.Stdin.WriteString(req.Input): bufio.Writer returns its sticky
\* error if it has one, and otherwise keeps the bytes in its buffer.
InputWrite(r) ==
    /\ ~crashed
    /\ pc[r] = "iwrite"
    /\ LET p == input[r].Pid IN
       IF stdinBuf[p].err
       THEN /\ pc' = [pc EXCEPT ![r] = "done"]
            /\ result' = [result EXCEPT ![r] = "500"]
            /\ reqCtxDone' = Returned(r)
            /\ UNCHANGED stdinBuf
       ELSE /\ stdinBuf' = [stdinBuf EXCEPT ![p].buf = Append(@, input[r].Input)]
            /\ pc' = [pc EXCEPT ![r] = "iflush"]
            /\ UNCHANGED <<result, reqCtxDone>>
    /\ UNCHANGED <<req, c, listing, regVars, childVars, pipeVars, goVars, events,
                   ctxDone, crashed, input, execVars, wsVars, httpVars, lockVars, loopVars, injVars>>

\* Mutant of InputFlush: the error of Flush is not checked.
InputFlush_NoErrorCheck(r) ==
    /\ ~crashed
    /\ pc[r] = "iflush"
    /\ LET p == input[r].Pid IN
       IF ~stdinBuf[p].err /\ stdinBuf[p].buf # <<>> /\ WriteOK(p)
       THEN /\ stdinData' = [stdinData EXCEPT ![p] = @ \o stdinBuf[p].buf]
            /\ stdinBuf' = [stdinBuf EXCEPT ![p].buf = <<>>]
       ELSE /\ stdinBuf' = [stdinBuf EXCEPT ![p].err = TRUE]
            /\ UNCHANGED stdinData
    /\ result' = [result EXCEPT ![r] = "200"]
    /\ pc' = [pc EXCEPT ![r] = "done"]
    /\ reqCtxDone' = Returned(r)
    /\ UNCHANGED <<req, c, listing, regVars, childVars, stdinPipe, goVars, events,
                   ctxDone, crashed, input, execVars, wsVars, httpVars, lockVars, loopVars, injVars>>

\* processInfo.Stdin.Flush(): the buffered bytes go to the stdin pipe; a
\* failed write leaves the error in the bufio.Writer.  500 on an error, 200
\* {"status":"success"} otherwise.
InputFlush(r) ==
    /\ ~crashed
    /\ pc[r] = "iflush"
    /\ LET p == input[r].Pid IN
       CASE stdinBuf[p].err ->
              /\ result' = [result EXCEPT ![r] = "500"]
              /\ UNCHANGED <<stdinBuf, stdinData>>
         [] ~stdinBuf[p].err /\ stdinBuf[p].buf = <<>> ->
              /\ result' = [result EXCEPT ![r] = "200"]
              /\ UNCHANGED <<stdinBuf, stdinData>>
         [] ~stdinBuf[p].err /\ stdinBuf[p].buf # <<>> /\ WriteOK(p) ->
              /\ stdinData' = [stdinData EXCEPT ![p] = @ \o stdinBuf[p].buf]
              /\ stdinBuf' = [stdinBuf EXCEPT ![p].buf = <<>>]
              /\ result' = [result EXCEPT ![r] = "200"]
         [] OTHER ->
              /\ stdinBuf' = [stdinBuf EXCEPT ![p].err = TRUE]
              /\ result' = [result EXCEPT ![r] = "500"]
              /\ UNCHANGED stdinData
    /\ pc' = [pc EXCEPT ![r] = "done"]
    /\ reqCtxDone' = Returned(r)
    /\ UNCHANGED <<req, c, listing, regVars, childVars, stdinPipe, goVars, events,
                   ctxDone, crashed, input, execVars, wsVars, httpVars, lockVars, loopVars, injVars>>

InputNext ==
    \E r \in Req :
        \/ ArriveInput(r)
        \/ InputLookup(r)
        \/ InputWrite(r)
        \/ InputFlush(r)

\* ------------------------------------------------------------- /api/exec
\* A POST to /api/exec arrives and its body is decoded (lines 101-120).
ArriveExec(r) ==
    /\ ~crashed
    /\ pc[r] = "idle"
    /\ req' = [req EXCEPT ![r] = [NoReq EXCEPT !.method = "EXEC", !.Cmd = "ls"]]
    /\ pc' = [pc EXCEPT ![r] = "xstart"]
    /\ UNCHANGED <<c, result, listing, regVars, childVars, pipeVars, goVars, ioVars,
                   crashed, apiVars>>

\* The error cmd.Run() returns: nil, an *exec.ExitError for a process that
\* ended unsuccessfully, or another error when the command did not start.
RunError(st) ==
    CASE st = "ok" -> "nil"
      [] st \in {"code", "signal"} -> "ExitError"
      [] OTHER -> "error"

\* err.Error()
RunErrorText(st) == IF st = "nostart" THEN "exec: command not started" ELSE ErrorOf(st)

\* Mutant of ExecResponse: every error is reported as -1.
ExecResponse_AlwaysMinusOne(r, st) ==
    [Stdout |-> captured[r]["stdout"],
     Stderr |-> captured[r]["stderr"],
     ExitCode |-> IF RunError(st) = "nil" THEN 0 ELSE -1,
     Error |-> IF RunError(st) = "nil" THEN "" ELSE RunErrorText(st)]

\* The execResponse built from the buffers and from err (lines 129-143).
ExecResponse(r, st) ==
    [Stdout |-> captured[r]["stdout"],
     Stderr |-> captured[r]["stderr"],
     ExitCode |-> CASE RunError(st) = "nil" -> 0
                    [] RunError(st) = "ExitError" -> ExitCodeOf(st)
                    [] OTHER -> -1,
     Error |-> IF RunError(st) = "nil" THEN "" ELSE RunErrorText(st)]

\* Mutant of ExecStart: the started process is added to processManager.
ExecStart_Registers(r) ==
    /\ ~crashed
    /\ pc[r] = "xstart"
    /\ proc' = [proc EXCEPT ![r] = "running"]
    /\ processes' = processes \cup {r}
    /\ pc' = [pc EXCEPT ![r] = "xwait"]
    /\ UNCHANGED <<req, c, result, listing, cmdWriterCache, pmDeletes, status,
                   childStdin, produced, pipeVars, goVars, ioVars, crashed, apiVars>>

\* context.WithTimeout, createCommand, the two buffers and the first half of
\* cmd.Run(): the process is started, its stdout and stderr connected to
\* pipes that exec copies into the buffers.
ExecStart(r) ==
    /\ ~crashed
    /\ pc[r] = "xstart"
    /\ proc' = [proc EXCEPT ![r] = "running"]
    /\ pc' = [pc EXCEPT ![r] = "xwait"]
    /\ UNCHANGED <<req, c, result, listing, regVars, status, childStdin, produced,
                   pipeVars, goVars, ioVars, crashed, apiVars>>

\* cmd.Run() fails to start the command: the response with the error, and
\* the deferred cancel.
ExecStartFail(r) ==
    /\ ~crashed
    /\ pc[r] = "xstart"
    /\ status' = [status EXCEPT ![r] = "nostart"]
    /\ resp' = [resp EXCEPT ![r] = ExecResponse(r, "nostart")]
    /\ result' = [result EXCEPT ![r] = "200"]
    /\ ctxDone' = [ctxDone EXCEPT ![r] = TRUE]
    /\ reqCtxDone' = Returned(r)
    /\ pc' = [pc EXCEPT ![r] = "done"]
    /\ UNCHANGED <<req, c, listing, regVars, proc, childStdin, produced, pipeVars,
                   goVars, events, crashed, inVars, wsVars, httpVars, lockVars, loopVars, injVars, orphan, written, captured>>

\* The command starts a subprocess, which inherits the output pipes.
ExecFork(r) ==
    /\ req[r].method = "EXEC"
    /\ proc[r] = "running"
    /\ ~orphan[r]
    /\ orphan' = [orphan EXCEPT ![r] = TRUE]
    /\ UNCHANGED <<reqVars, regVars, childVars, pipeVars, goVars, ioVars, crashed,
                   inVars, wsVars, httpVars, lockVars, loopVars, injVars, written, captured, resp>>

\* The subprocess ends or closes the pipes it inherited.
OrphanExit(r) ==
    /\ orphan[r]
    /\ orphan' = [orphan EXCEPT ![r] = FALSE]
    /\ UNCHANGED <<reqVars, regVars, childVars, pipeVars, goVars, ioVars, crashed,
                   inVars, wsVars, httpVars, lockVars, loopVars, injVars, written, captured, resp>>

\* The lines written so far to the output pipes of all one-shot commands.
LinesWritten == SumOver([p \in Req |-> SumOver(written[p], Streams)], Req)

\* The command or its subprocess writes a line to an output pipe.
ExecOutput(r) ==
    /\ req[r].method = "EXEC"
    /\ proc[r] = "running" \/ orphan[r]
    /\ LinesWritten < MaxLines
    /\ \E s \in Streams : written' = [written EXCEPT ![r][s] = @ + 1]
    /\ UNCHANGED <<reqVars, regVars, childVars, pipeVars, goVars, ioVars, crashed,
                   inVars, wsVars, httpVars, lockVars, loopVars, injVars, orphan, captured, resp>>

\* The goroutine exec starts for an output pipe copies a line into the buffer.
ExecCopy(r) ==
    /\ ~crashed
    /\ pc[r] = "xwait"
    /\ \E s \in Streams :
        /\ captured[r][s] < written[r][s]
        /\ captured' = [captured EXCEPT ![r][s] = @ + 1]
    /\ UNCHANGED <<reqVars, regVars, childVars, pipeVars, goVars, ioVars, crashed,
                   inVars, wsVars, httpVars, lockVars, loopVars, injVars, orphan, written, resp>>

\* The 30 seconds of context.WithTimeout have passed.
Deadline(r) ==
    /\ ~crashed
    /\ pc[r] = "xwait"
    /\ ~ctxDone[r]
    /\ ctxDone' = [ctxDone EXCEPT ![r] = TRUE]
    /\ UNCHANGED <<reqVars, regVars, childVars, pipeVars, goVars, events, reqCtxDone,
                   crashed, apiVars>>

\* The output pipes of the command are at end of file: the process has
\* exited and no subprocess holds a write end.
PipesAtEOF(r) == proc[r] = "exited" /\ ~orphan[r]

\* The second half of cmd.Run(): Wait returns once the process has exited and
\* the copying goroutines have reached the end of both pipes.  Then the
\* response is built and written, and the deferred cancel runs.
ExecWait(r) ==
    /\ ~crashed
    /\ pc[r] = "xwait"
    /\ PipesAtEOF(r)
    /\ captured[r] = written[r]
    /\ resp' = [resp EXCEPT ![r] = ExecResponse(r, status[r])]
    /\ result' = [result EXCEPT ![r] = "200"]
    /\ ctxDone' = [ctxDone EXCEPT ![r] = TRUE]
    /\ reqCtxDone' = Returned(r)
    /\ pc' = [pc EXCEPT ![r] = "done"]
    /\ UNCHANGED <<req, c, listing, regVars, childVars, pipeVars, goVars, events,
                   crashed, inVars, wsVars, httpVars, lockVars, loopVars, injVars, orphan, written, captured>>

ExecNext ==
    \E r \in Req :
        \/ ArriveExec(r)
        \/ ExecStart(r)
        \/ ExecStartFail(r)
        \/ ExecFork(r)
        \/ OrphanExit(r)
        \/ ExecOutput(r)
        \/ ExecCopy(r)
        \/ Deadline(r)
        \/ ExecWait(r)
        \/ ChildExit(r)
        \/ CtxKill(r)

\* ------------------------------------------------------------- the pty bridge
\* buf := make([]byte, 1024)
BufSize == 1024

\* A WebSocket request arrives at /extensionProxy/terminal/ws.
ArriveWS(r) ==
    /\ ~crashed
    /\ pc[r] = "idle"
    /\ req' = [req EXCEPT ![r] = [NoReq EXCEPT !.method = "WS"]]
    /\ pc' = [pc EXCEPT ![r] = "upgrade"]
    /\ UNCHANGED <<c, result, listing, regVars, childVars, pipeVars, goVars, ioVars,
                   crashed, apiVars>>

\* conn, err := upgrader.Upgrade(w, r, nil); the handler returns on an error.
Upgrade(r) ==
    /\ ~crashed
    /\ pc[r] = "upgrade"
    /\ \/ /\ conn' = [conn EXCEPT ![r] = "open"]
          /\ pc' = [pc EXCEPT ![r] = "ptystart"]
          /\ UNCHANGED <<result, reqCtxDone>>
       \/ /\ result' = [result EXCEPT ![r] = "400"]
          /\ pc' = [pc EXCEPT ![r] = "done"]
          /\ reqCtxDone' = Returned(r)
          /\ UNCHANGED conn
    /\ UNCHANGED <<req, c, listing, regVars, childVars, pipeVars, goVars, events,
                   ctxDone, crashed, inVars, execVars, httpVars, lockVars, loopVars, injVars, ptmx, toPty, toWS, wsIn, ptyIn,
                   ptyOut, wsOut, sent>>

\* ptmx, err := pty.Start(cmd), wg.Add(2) and the two go statements; on an
\* error the handler returns and the deferred conn.Close() runs.
PtyStart(r) ==
    /\ ~crashed
    /\ pc[r] = "ptystart"
    /\ \/ /\ proc' = [proc EXCEPT ![r] = "running"]
          /\ ptmx' = [ptmx EXCEPT ![r] = "open"]
          /\ toPty' = [toPty EXCEPT ![r] = [st |-> "read", data |-> <<>>]]
          /\ toWS' = [toWS EXCEPT ![r] = [st |-> "read", data |-> <<>>]]
          /\ pc' = [pc EXCEPT ![r] = "wgwait"]
          /\ UNCHANGED <<conn, result, reqCtxDone>>
       \/ /\ conn' = [conn EXCEPT ![r] = "closed"]
          /\ result' = [result EXCEPT ![r] = "closed"]
          /\ pc' = [pc EXCEPT ![r] = "done"]
          /\ reqCtxDone' = Returned(r)
          /\ UNCHANGED <<proc, ptmx, toPty, toWS>>
    /\ UNCHANGED <<req, c, listing, regVars, status, childStdin, produced, pipeVars,
                   goVars, events, ctxDone, crashed, inVars, execVars, httpVars, lockVars, loopVars, injVars, wsIn, ptyIn,
                   ptyOut, wsOut, sent>>

\* The bytes produced so far by all clients and shells; byte n of a producer
\* has the value n.
BytesSent == SumOver([p \in Req |-> sent[p].client + sent[p].shell], Req)

\* The client sends a message of one byte.
ClientSend(r) ==
    /\ conn[r] = "open"
    /\ BytesSent < MaxBytes
    /\ sent' = [sent EXCEPT ![r].client = @ + 1]
    /\ wsIn' = [wsIn EXCEPT ![r] = Append(@, <<sent[r].client + 1>>)]
    /\ UNCHANGED <<reqVars, regVars, childVars, pipeVars, goVars, ioVars, crashed,
                   inVars, execVars, httpVars, lockVars, loopVars, injVars, conn, ptmx, toPty, toWS, ptyIn, ptyOut, wsOut>>

\* The client closes the connection, or the connection is reset.
ClientClose(r) ==
    /\ conn[r] = "open"
    /\ conn' = [conn EXCEPT ![r] = "peerClosed"]
    /\ UNCHANGED <<reqVars, regVars, childVars, pipeVars, goVars, ioVars, crashed,
                   inVars, execVars, httpVars, lockVars, loopVars, injVars, ptmx, toPty, toWS, wsIn, ptyIn, ptyOut, wsOut,
                   sent>>

\* The shell writes a byte to its terminal.
ShellOutput(r) ==
    /\ ptmx[r] = "open"
    /\ proc[r] = "running"
    /\ BytesSent < MaxBytes
    /\ sent' = [sent EXCEPT ![r].shell = @ + 1]
    /\ ptyOut' = [ptyOut EXCEPT ![r] = Append(@, sent[r].shell + 1)]
    /\ UNCHANGED <<reqVars, regVars, childVars, pipeVars, goVars, ioVars, crashed,
                   inVars, execVars, httpVars, lockVars, loopVars, injVars, conn, ptmx, toPty, toWS, wsIn, ptyIn, wsOut>>

\* _, msg, err := conn.ReadMessage(): the next message, or an error once the
\* connection is closed and no message is left.
ToPtyRead(r) ==
    /\ ~crashed
    /\ toPty[r].st = "read"
    /\ IF wsIn[r] # <<>>
       THEN /\ toPty' = [toPty EXCEPT ![r] = [st |-> "write", data |-> Head(wsIn[r])]]
            /\ wsIn' = [wsIn EXCEPT ![r] = Tail(@)]
       ELSE /\ conn[r] # "open"
            /\ toPty' = [toPty EXCEPT ![r] = [st |-> "readErr", data |-> <<>>]]
            /\ UNCHANGED wsIn
    /\ UNCHANGED <<reqVars, regVars, childVars, pipeVars, goVars, ioVars, crashed,
                   inVars, execVars, httpVars, lockVars, loopVars, injVars, conn, ptmx, toWS, ptyIn, ptyOut, wsOut, sent>>

\* Mutant of ToPtyWrite: the message is taken as a command and written with a
\* newline (byte 0) after it.
ToPtyWrite_AsCommand(r) ==
    /\ ~crashed
    /\ toPty[r].st = "write"
    /\ IF ptmx[r] = "open" /\ proc[r] = "running"
       THEN /\ ptyIn' = [ptyIn EXCEPT ![r] = @ \o toPty[r].data \o <<0>>]
            /\ toPty' = [toPty EXCEPT ![r] = [st |-> "read", data |-> <<>>]]
       ELSE /\ toPty' = [toPty EXCEPT ![r] = [st |-> "writeErr", data |-> <<>>]]
            /\ UNCHANGED ptyIn
    /\ UNCHANGED <<reqVars, regVars, childVars, pipeVars, goVars, ioVars, crashed,
                   inVars, execVars, httpVars, lockVars, loopVars, injVars, conn, ptmx, toWS, wsIn, ptyOut, wsOut, sent>>

\* ptmx.Write(msg): the bytes of the message go to the pty; an error once
\* the shell has exited.
ToPtyWrite(r) ==
    /\ ~crashed
    /\ toPty[r].st = "write"
    /\ IF ptmx[r] = "open" /\ proc[r] = "running"
       THEN /\ ptyIn' = [ptyIn EXCEPT ![r] = @ \o toPty[r].data]
            /\ toPty' = [toPty EXCEPT ![r] = [st |-> "read", data |-> <<>>]]
       ELSE /\ toPty' = [toPty EXCEPT ![r] = [st |-> "writeErr", data |-> <<>>]]
            /\ UNCHANGED ptyIn
    /\ UNCHANGED <<reqVars, regVars, childVars, pipeVars, goVars, ioVars, crashed,
                   inVars, execVars, httpVars, lockVars, loopVars, injVars, conn, ptmx, toWS, wsIn, ptyOut, wsOut, sent>>

Min(a, b) == IF a < b THEN a ELSE b

\* n, err := ptmx.Read(buf): the bytes at hand, at most len(buf) of them; an
\* error once the shell has exited and nothing is left to read.
ToWSRead(r) ==
    /\ ~crashed
    /\ toWS[r].st = "read"
    /\ IF ptyOut[r] # <<>>
       THEN LET n == Min(Len(ptyOut[r]), BufSize) IN
            /\ toWS' = [toWS EXCEPT ![r] = [st |-> "write",
                                            data |-> SubSeq(ptyOut[r], 1, n)]]
            /\ ptyOut' = [ptyOut EXCEPT ![r] = SubSeq(@, n + 1, Len(@))]
       ELSE /\ proc[r] = "exited"
            /\ toWS' = [toWS EXCEPT ![r] = [st |-> "readErr", data |-> <<>>]]
            /\ UNCHANGED ptyOut
    /\ UNCHANGED <<reqVars, regVars, childVars, pipeVars, goVars, ioVars, crashed,
                   inVars, execVars, httpVars, lockVars, loopVars, injVars, conn, ptmx, toPty, wsIn, ptyIn, wsOut, sent>>

\* conn.WriteMessage(websocket.TextMessage, buf[:n]): one message with the
\* bytes read; an error once the connection is closed.
ToWSWrite(r) ==
    /\ ~crashed
    /\ toWS[r].st = "write"
    /\ IF conn[r] = "open"
       THEN /\ wsOut' = [wsOut EXCEPT ![r] = Append(@, toWS[r].data)]
            /\ toWS' = [toWS EXCEPT ![r] = [st |-> "read", data |-> <<>>]]
       ELSE /\ toWS' = [toWS EXCEPT ![r] = [st |-> "writeErr", data |-> <<>>]]
            /\ UNCHANGED wsOut
    /\ UNCHANGED <<reqVars, regVars, childVars, pipeVars, goVars, ioVars, crashed,
                   inVars, execVars, httpVars, lockVars, loopVars, injVars, conn, ptmx, toPty, wsIn, ptyIn, ptyOut, sent>>

Ended(g) == g.st \in {"readErr", "writeErr"}

\* wg.Wait() after wg.Add(2): both goroutines have called wg.Done().
WaitDone(r) == Ended(toPty[r]) /\ Ended(toWS[r])

\* wg.Wait() returns and the deferred calls run: ptmx.Close(),
\* cmd.Process.Kill(), conn.Close().
Teardown(r) ==
    /\ ~crashed
    /\ pc[r] = "wgwait"
    /\ WaitDone(r)
    /\ ptmx' = [ptmx EXCEPT ![r] = "closed"]
    /\ IF proc[r] = "running"
       THEN /\ proc' = [proc EXCEPT ![r] = "exited"]
            /\ status' = [status EXCEPT ![r] = "signal"]
       ELSE UNCHANGED <<proc, status>>
    /\ conn' = [conn EXCEPT ![r] = "closed"]
    /\ result' = [result EXCEPT ![r] = "closed"]
    /\ pc' = [pc EXCEPT ![r] = "done"]
    /\ reqCtxDone' = Returned(r)
    /\ UNCHANGED <<req, c, listing, regVars, childStdin, produced, pipeVars, goVars,
                   events, ctxDone, crashed, inVars, execVars, httpVars, lockVars, loopVars, injVars, toPty, toWS, wsIn, ptyIn,
                   ptyOut, wsOut, sent>>

BridgeNext ==
    \E r \in Req :
        \/ ArriveWS(r)
        \/ Upgrade(r)
        \/ PtyStart(r)
        \/ ClientSend(r)
        \/ ClientClose(r)
        \/ ShellOutput(r)
        \/ ToPtyRead(r)
        \/ ToPtyWrite(r)
        \/ ToWSRead(r)
        \/ ToWSWrite(r)
        \/ Teardown(r)
        \/ ChildExit(r)

\* ------------------------------------------------------------- method and body
\* The three endpoints that take a JSON body, the request methods ("PUT"
\* stands for every method the handlers do not name) and the two kinds of body.
Endpoints == {"exec", "stream", "input"}
HttpMethods == {"POST", "GET", "DELETE", "OPTIONS", "PUT"}
Bodies == {"json", "malformed"}

\* Mutant of Route: the streaming endpoint has no else-branch for other
\* methods, which fall through to the decoding of a POST.
Route_NoMethodCheck(e, m, b) ==
    CASE m = "OPTIONS" -> "preflight"
      [] m # "OPTIONS" /\ e = "stream" /\ m = "GET" -> "accept"
      [] m # "OPTIONS" /\ e # "stream" /\ m # "POST" -> "405"
      [] OTHER -> IF b = "malformed" THEN "400" ELSE "accept"

\* What the first statements of a handler make of a request: the pre-flight
\* answer, 405, 400, or the handler's body ("accept").
\* /api/exec and /api/exec/input: OPTIONS, then method # POST, then Decode.
\* The streaming endpoint: OPTIONS, DELETE with Decode, GET, method # POST,
\* then Decode.
Route(e, m, b) ==
    CASE m = "OPTIONS" -> "preflight"
      [] m # "OPTIONS" /\ e = "stream" /\ m = "GET" -> "accept"
      [] m # "OPTIONS" /\ e = "stream" /\ m = "PUT" -> "405"
      [] m # "OPTIONS" /\ e # "stream" /\ m # "POST" -> "405"
      [] OTHER -> IF b = "malformed" THEN "400" ELSE "accept"

\* The cross-origin headers of the answer to a request of method m on endpoint
\* e that took the route o.  /api/exec and /api/exec/input set Allow-Origin
\* before looking at the method; the streaming endpoint sets it only on the
\* event stream of a decoded POST.  Every pre-flight advertises the same
\* methods and headers.
NoHeaders == [AllowOrigin |-> "", AllowMethods |-> {}, AllowHeaders |-> {}]
ResponseHeaders(e, m, o) ==
    [AllowOrigin  |-> IF e # "stream" \/ (m = "POST" /\ o = "accept") THEN "*" ELSE "",
     AllowMethods |-> IF o = "preflight" THEN {"POST", "OPTIONS"} ELSE {},
     AllowHeaders |-> IF o = "preflight" THEN {"Content-Type"} ELSE {}]

\* A request that its handler answers at once: a pre-flight, a method the
\* endpoint does not serve, or a body that does not decode.
AnswerAtOnce(r) ==
    /\ ~crashed
    /\ pc[r] = "idle"
    /\ \E e \in Endpoints, m \in HttpMethods, b \in Bodies :
        /\ Route(e, m, b) # "accept"
        /\ raw' = [raw EXCEPT ![r] = [endpoint |-> e, method |-> m, body |-> b]]
        /\ result' = [result EXCEPT ![r] =
                        IF Route(e, m, b) = "preflight" THEN "200" ELSE Route(e, m, b)]
    /\ req' = [req EXCEPT ![r] = [NoReq EXCEPT !.method = "answered"]]
    /\ pc' = [pc EXCEPT ![r] = "done"]
    /\ reqCtxDone' = Returned(r)
    /\ UNCHANGED <<c, listing, regVars, childVars, pipeVars, goVars, events, ctxDone,
                   crashed, inVars, execVars, wsVars, lockVars, loopVars, injVars>>

HttpNext == \E r \in Req : AnswerAtOnce(r)

\* A streaming POST whose cmd is the empty string arrives and is decoded
\* (lines 210-213); the handler has no check of req.Cmd.  Requests are
\* interchangeable, so the one with the empty command is request 1.
ArriveEmptyCmd(r) ==
    /\ ~crashed
    /\ pc[r] = "idle"
    /\ r = 1
    /\ \E t \in TermIds :
        /\ r = 1 => t = "t1"
        /\ req' = [req EXCEPT ![r] =
                     [method |-> "POST", TerminalId |-> t,
                      TerminalName |-> TermName(r), Cmd |-> ""]]
    /\ pc' = [pc EXCEPT ![r] = "plookup"]
    /\ UNCHANGED <<c, result, listing, regVars, childVars, pipeVars, goVars, ioVars,
                   crashed, apiVars>>

\* The streaming endpoint with the requests the handlers answer at once.
HttpSpec == Init /\ [][Next \/ HttpNext]_vars

\* The streaming endpoint with a command of zero length among the requests.
EmptyCmdSpec == Init /\ [][Next \/ \E r \in Req : ArriveEmptyCmd(r)]_vars

\* ------------------------------------------- processManager, by statement
\* The actions above take "lock, access the map, unlock" as one step.  Here
\* each statement that touches processManager.mutex or the map is a step of
\* its own, and at[g] is the line goroutine g executes next.
notLock == <<reqVars, cmdWriterCache, pmDeletes, childVars, pipeVars, goVars, ioVars,
             crashed, inVars, execVars, wsVars, httpVars, loopVars, injVars>>

LockLines == {279, 341, 383}
AccessLines == {280, 342, 384}
UnlockLines == {281, 343, 385}
\* cmd.Wait() (328), doneCh <- true (345), select (351), Stdin.WriteString
\* (431) and Stdin.Flush (438).
BlockingLines == {328, 345, 351, 431, 438}

\* A streaming handler has started its process and reaches line 279; an
\* input handler has decoded its request and reaches line 421.
Begin(g) ==
    /\ at[g] = NotStarted
    /\ g[1] \in {"handler", "input"}
    /\ at' = [at EXCEPT ![g] = IF g[1] = "handler" THEN 279 ELSE 421]
    /\ UNCHANGED <<notLock, processes, mutex, exists>>

\* processManager.mutex.Lock(): waits until nobody holds the lock.
Lock(g) ==
    /\ at[g] \in LockLines
    /\ mutex.writer = {} /\ mutex.readers = {}
    /\ mutex' = [mutex EXCEPT !.writer = {g}]
    /\ at' = [at EXCEPT ![g] = @ + 1]
    /\ UNCHANGED <<notLock, processes, exists>>

\* Where goroutine g goes after its Unlock: the handler starts the reader
\* and waiter goroutines (311-346) and enters the loop's select; the waiter
\* goes to its send on doneCh; the cancel branch leaves the loop and the
\* handler returns.
AfterUnlock(g) ==
    [h \in Goroutines |->
        IF h = g
        THEN CASE at[g] = 281 -> 351 [] at[g] = 343 -> 345 [] OTHER -> Finished
        ELSE IF at[g] = 281 /\ h = <<"waiter", g[2]>> THEN 328 ELSE at[h]]

\* Mutant of Unlock: the goroutine goes on without releasing the lock.
Unlock_Late(g) ==
    /\ at[g] \in UnlockLines
    /\ at' = AfterUnlock(g)
    /\ UNCHANGED <<notLock, processes, mutex, exists>>

\* processManager.mutex.Unlock().
Unlock(g) ==
    /\ at[g] \in UnlockLines
    /\ mutex' = [mutex EXCEPT !.writer = @ \ {g}]
    /\ at' = AfterUnlock(g)
    /\ UNCHANGED <<notLock, processes, exists>>

\* processManager.processes[cmd.Process.Pid] = processInfo (280), and
\* delete(processManager.processes, cmd.Process.Pid) (342, 384).
Access(g) ==
    /\ at[g] \in AccessLines
    /\ processes' = IF at[g] = 280 THEN processes \cup {g[2]} ELSE processes \ {g[2]}
    /\ at' = [at EXCEPT ![g] = @ + 1]
    /\ UNCHANGED <<notLock, mutex, exists>>

\* processManager.mutex.RLock(): waits until no writer holds the lock.
RLock(g) ==
    /\ at[g] = 421
    /\ mutex.writer = {}
    /\ mutex' = [mutex EXCEPT !.readers = @ \cup {g}]
    /\ at' = [at EXCEPT ![g] = 422]
    /\ UNCHANGED <<notLock, processes, exists>>

\* processInfo, exists := processManager.processes[req.Pid].  Requests are
\* interchangeable, so input request r asks for the process of request r.
Read(g) ==
    /\ at[g] = 422
    /\ exists' = [exists EXCEPT ![g[2]] = g[2] \in processes]
    /\ at' = [at EXCEPT ![g] = 423]
    /\ UNCHANGED <<notLock, processes, mutex>>

\* processManager.mutex.RUnlock(), then 404 and return if !exists.
RUnlock(g) ==
    /\ at[g] = 423
    /\ mutex' = [mutex EXCEPT !.readers = @ \ {g}]
    /\ at' = [at EXCEPT ![g] = IF exists[g[2]] THEN 431 ELSE Finished]
    /\ UNCHANGED <<notLock, processes, exists>>

\* A blocking statement other than the loop's select completes: cmd.Wait()
\* returns, Stdin.WriteString returns, Stdin.Flush returns.
Unblock(g) ==
    /\ at[g] \in {328, 431, 438}
    /\ at' = [at EXCEPT ![g] = CASE @ = 328 -> 341 [] @ = 431 -> 438 [] OTHER -> Finished]
    /\ UNCHANGED <<notLock, processes, mutex, exists>>

\* The select at 351 takes `case <-doneCh` together with the waiter's send
\* at 345: the loop ends, the handler returns and so does the waiter.
TakeDone(r) ==
    /\ at[<<"handler", r>>] = 351
    /\ at[<<"waiter", r>>] = 345
    /\ at' = [at EXCEPT ![<<"handler", r>>] = Finished, ![<<"waiter", r>>] = Finished]
    /\ UNCHANGED <<notLock, processes, mutex, exists>>

\* The select at 351 takes `case <-ctx.Done()` and reaches line 383.
TakeCancel(r) ==
    /\ at[<<"handler", r>>] = 351
    /\ at' = [at EXCEPT ![<<"handler", r>>] = 383]
    /\ UNCHANGED <<notLock, processes, mutex, exists>>

LockNext ==
    \/ \E g \in Goroutines :
        \/ Begin(g)
        \/ Lock(g)
        \/ Unlock(g)
        \/ Access(g)
        \/ RLock(g)
        \/ Read(g)
        \/ RUnlock(g)
        \/ Unblock(g)
    \/ \E r \in Req : TakeDone(r) \/ TakeCancel(r)

\* The goroutines that touch processManager, statement by statement.
LockSpec == Init /\ [][LockNext]_vars

\* ------------------------------------------- one process, several lines
\* One streaming request whose process writes up to MaxOrderLines lines, with
\* the passes of the loop that receive from a closed channel counted.
MaxOrderLines == 3
MaxSpins == 2

\* One pass of the loop.  A receive from a channel its reader has closed
\* proceeds at once with ok = false: the pass writes nothing and the loop
\* goes round again.
LoopPass(r) ==
    /\ ~crashed
    /\ pc[r] = "loop"
    /\ \E b \in SelectReady(r) :
        IF b[1] \in Streams /\ rd[r][b[1]].st = "closed"
        THEN /\ spins' = [spins EXCEPT ![r] = Min(@ + 1, MaxSpins)]
             /\ UNCHANGED <<reqVars, regVars, childVars, pipeVars, goVars, ioVars,
                            crashed, inVars, execVars, wsVars, httpVars, lockVars, injVars>>
        ELSE SelectCase(r, b)

LoopNext ==
    \E r \in {1} :
        \/ Arrive(r)
        \/ DeleteLookup(r)
        \/ List(r)
        \/ PostLookup(r)
        \/ Spawn(r)
        \/ SpawnFail(r)
        \/ Insert(r)
        \/ LoopPass(r)
        \/ DeleteFinal(r)
        \/ ChildCloseStdin(r)
        \/ ChildExit(r)
        \/ ReaderScanUpTo(r, MaxOrderLines)
        \/ ReaderClose(r)
        \/ WaiterWait(r)
        \/ WaiterRemove(r)

LoopSpec == Init /\ [][LoopNext]_vars

\* ------------------------------------------- two injections, one writer
\* The input handler calls WriteString and Flush on processInfo.Stdin, the one
\* bufio.Writer of the process, after RUnlock and under no lock (lines
\* 431-438).  A bufio.Writer is not synchronised, so the statements of its
\* two methods can interleave between the handlers; they are the steps.
notInj == <<reqVars, regVars, childVars, stdinPipe, goVars, ioVars, crashed, inVars,
            execVars, wsVars, httpVars, lockVars, loopVars>>

\* The bytes of the input of handler i.
InputOf(i) == <<10 * i + 1, 10 * i + 2>>

\* The request of handler i arrives and is decoded.
InjArrive(i) ==
    /\ inj[i] = "idle"
    /\ inj' = [inj EXCEPT ![i] = "lookup"]
    /\ UNCHANGED <<notInj, stdinData, bw>>

\* The lookup of lines 421-428.
InjLookup(i) ==
    /\ inj[i] = "lookup"
    /\ inj' = [inj EXCEPT ![i] = IF 1 \in processes THEN "copy" ELSE "404"]
    /\ UNCHANGED <<notInj, stdinData, bw>>

\* WriteString: n := copy(b.buf[b.n:], s)
InjCopy(i) ==
    /\ inj[i] = "copy"
    /\ bw' = [bw EXCEPT !.buf = [k \in 1..BufCap |->
                    IF k > bw.n /\ k <= bw.n + Len(InputOf(i))
                    THEN InputOf(i)[k - bw.n] ELSE @[k]]]
    /\ inj' = [inj EXCEPT ![i] = "add"]
    /\ UNCHANGED <<notInj, stdinData>>

\* WriteString: b.n += n
InjAdd(i) ==
    /\ inj[i] = "add"
    /\ bw' = [bw EXCEPT !.n = Min(@ + Len(InputOf(i)), BufCap)]
    /\ inj' = [inj EXCEPT ![i] = "flush"]
    /\ UNCHANGED <<notInj, stdinData>>

\* Flush: if b.n == 0 { return nil }; b.wr.Write(b.buf[0:b.n])
InjFlushWrite(i) ==
    /\ inj[i] = "flush"
    /\ IF bw.n = 0
       THEN /\ inj' = [inj EXCEPT ![i] = "200"]
            /\ UNCHANGED stdinData
       ELSE /\ stdinData' = [stdinData EXCEPT ![1] = @ \o [k \in 1..bw.n |-> bw.buf[k]]]
            /\ inj' = [inj EXCEPT ![i] = "reset"]
    /\ UNCHANGED <<notInj, bw>>

\* Flush: b.n = 0; return nil, and the handler answers 200.
InjFlushReset(i) ==
    /\ inj[i] = "reset"
    /\ bw' = [bw EXCEPT !.n = 0]
    /\ inj' = [inj EXCEPT ![i] = "200"]
    /\ UNCHANGED <<notInj, stdinData>>

\* Request 1 starts a process, which stays alive and keeps its stdin open,
\* and the two input handlers run.
InjNext ==
    \/ \E r \in {1} :
        \/ Arrive(r)
        \/ PostLookup(r)
        \/ Spawn(r)
        \/ SpawnFail(r)
        \/ Insert(r)
    \/ \E i \in Injectors :
        \/ InjArrive(i)
        \/ InjLookup(i)
        \/ InjCopy(i)
        \/ InjAdd(i)
        \/ InjFlushWrite(i)
        \/ InjFlushReset(i)

InjSpec == Init /\ [][InjNext]_vars

\* The streaming endpoint together with the input endpoint, which writes to
\* the processes the streaming endpoint registers.
InputSpec == Init /\ [][Next \/ InputNext]_vars

\* The streaming endpoint together with the other endpoints of the server.
ApiNext == Next \/ InputNext \/ ExecNext \/ BridgeNext \/ HttpNext

ApiSpec == Init /\ [][ApiNext]_vars

\* The endpoints that share nothing with the streaming endpoint, on their own.
SideNext == ExecNext \/ BridgeNext

SideSpec == Init /\ [][SideNext]_vars

\* The handler's own steps, the copying goroutines, the deadline timer and
\* the kill on cancellation happen; what a command or a client does is not
\* forced.
SideFairness ==
    \A r \in Req :
        /\ WF_vars(ExecStart(r) \/ ExecStartFail(r))
        /\ WF_vars(ExecCopy(r))
        /\ WF_vars(Deadline(r))
        /\ WF_vars(CtxKill(r))
        /\ WF_vars(ExecWait(r))
        /\ WF_vars(Upgrade(r))
        /\ WF_vars(PtyStart(r))
        /\ WF_vars(ToPtyRead(r))
        /\ WF_vars(ToPtyWrite(r))
        /\ WF_vars(ToWSRead(r))
        /\ WF_vars(ToWSWrite(r))
        /\ WF_vars(Teardown(r))

SideFairSpec == SideSpec /\ SideFairness

\* ------------------------------------------------------------- properties
\* The processes the streaming path has spawned for terminal t that are alive.
Alive(t) == {p \in Req : proc[p] = "running" /\ req[p].TerminalId = t}

\* C1: for every terminal identifier, at most one process spawned by the
\* streaming path for it is alive at any time.
C1_OneLiveProcessPerTerminal == \A t \in TermIds : Cardinality(Alive(t)) <= 1

\* C2: a streaming POST that found an entry and whose write to the entry's
\* input stream succeeds appends the command text and a newline to that
\* stream and returns: no process is spawned, no frame is written and both
\* registries stay as they are.
C2_HitWritesAndReturns ==
    [][\A r \in Req :
        (pc[r] = "write" /\ WriteOK(c[r].Writer) /\ pc'[r] # pc[r]) =>
            /\ pc'[r] = "done"
            /\ stdinData' = [stdinData EXCEPT ![c[r].Writer] =
                               Append(@, req[r].Cmd \o "\n")]
            /\ proc' = proc
            /\ events' = events
            /\ events[r] = <<>>
            /\ cmdWriterCache' = cmdWriterCache
            /\ processes' = processes]_vars

\* A request was answered by a write to the process of an earlier request.
C2_Witness ==
    \E r \in Req : result[r] = "written" /\ proc[r] = "none"
                   /\ \E p \in Req : stdinData[p] = <<"ls\n">>

\* C3: the start frame of a spawned process is written exactly once, and
\* before any stdout, stderr, end or error frame of that process.
C3_StartFirstAndOnce ==
    \A r \in Req :
        /\ proc[r] # "none" => events[r] # <<>>
        /\ events[r] # <<>> =>
            /\ events[r][1] = [type |-> "start", pid |-> r]
            /\ \A i \in 2..Len(events[r]) : events[r][i].type # "start"

\* A stream of a start frame, an output frame and the end frame.
C3_Witness ==
    \E r \in Req :
        /\ Len(events[r]) = 3
        /\ events[r][2].type \in Streams
        /\ events[r][3].type = "end"

TerminalTypes == {"end", "error"}
TerminalAt(r) == {i \in 1..Len(events[r]) : events[r][i].type \in TerminalTypes}

\* C4: the loop of a spawned process writes one terminal frame (end, or the
\* error frame of a cancellation), never both, and no frame after it.
C4_OneTerminalFrameLast ==
    \A r \in Req :
        /\ TerminalAt(r) \subseteq {Len(events[r])}
        /\ (pc[r] \in {"delFinal", "done"} /\ proc[r] # "none") =>
               TerminalAt(r) = {Len(events[r])}
        /\ TerminalAt(r) # {} => pc[r] \in {"delFinal", "done"}

\* A handler has returned after an end frame while a second sender was also
\* blocked on its completion channel.
C4_Witness ==
    \E r \in Req :
        /\ pc[r] = "done"
        /\ TerminalAt(r) = {Len(events[r])}
        /\ wt[r] = "send"

\* The session map holds the entry request r inserted.
HasEntry(r) ==
    /\ req[r].TerminalId \in DOMAIN cmdWriterCache
    /\ cmdWriterCache[req[r].TerminalId].Writer = r

\* C5: once the client of a streaming request in its loop has disconnected,
\* the child is eventually dead and its rows are gone from both registries.
C5_DisconnectCleansUp ==
    \A r \in Req :
        (pc[r] = "loop" /\ reqCtxDone[r]) ~>
            (proc[r] = "exited" /\ r \notin processes /\ ~HasEntry(r))

\* C6: a DELETE that finds a live session closes its input stream, cancels
\* its execution context and deletes the entry.
C6_DeleteCancels ==
    [][\A r \in Req :
        (pc[r] = "dlookup" /\ pc'[r] = "ddelete") =>
            LET e == cmdWriterCache[req[r].TerminalId] IN
            /\ stdinPipe'[e.Writer] = "closed"
            /\ ctxDone'[e.Context]]_vars

\* The handler of p has done everything it does when its process ends.
Cleaned(p) ==
    /\ \E i \in 1..Len(events[p]) : events[p][i].type = "end"
    /\ stdinPipe[p] = "closed"
    /\ p \notin processes
    /\ ~HasEntry(p)

\* C7: after a streamed process has exited on its own, its handler eventually
\* writes the end frame, closes the input stream and removes the pid and the
\* terminal identifier from the registries.
C7_ExitCleansUp ==
    \A p \in Req : (proc[p] = "exited" /\ status[p] \in ExitStatuses) ~> Cleaned(p)

\* C8: a request whose write to a stale entry failed goes on to spawn; it is
\* never left blocked on the completion channel of a loop that has stopped.
C8_StaleWriterProceeds ==
    \A r \in Req :
        pc[r] = "sendDone" => pc[c[r].DoneChannel] \in {"insert", "loop"}

\* C9: no two handlers are at accesses of the session map at the same time
\* when one of the accesses is a write.
C9_MapAccessExclusive == \A r, q \in Req : ~MapRace(r, q)

\* C10: the row of a registered process is removed once, by the waiter when
\* the wait has completed or by the loop on cancellation, never by both.
C10_RemovedOnce ==
    \A p \in Req :
        /\ Len(pmDeletes[p]) <= 1
        /\ wt[p] \in {"send", "end"} => pmDeletes[p] = <<"waiter">>
        /\ pmDeletes[p] # <<>> => p \notin processes

\* The waiter has removed the row and the handler has returned.
C10_Witness ==
    \E p \in Req : pmDeletes[p] = <<"waiter">> /\ pc[p] = "done" /\ reqCtxDone[p]

\* C11: an input request for a pid that is not registered is answered 404; it
\* writes to no process's input stream and leaves both registries as they are.
C11_UnknownPidNotFound ==
    [][\A r \in Req :
          (pc[r] = "ilookup" /\ pc'[r] # "ilookup" /\ input[r].Pid \notin processes)
              => /\ result'[r] = "404"
                 /\ pc'[r] = "done"
                 /\ UNCHANGED <<stdinData, stdinBuf, stdinPipe>>
                 /\ UNCHANGED <<cmdWriterCache, processes>>]_vars

\* An input request was answered 404 for the pid of a process that had been
\* registered and has since been removed.
C11_Witness ==
    \E r \in Req :
        /\ req[r].method = "INPUT" /\ result[r] = "404"
        /\ pmDeletes[input[r].Pid] # <<>>
        /\ stdinData[input[r].Pid] = <<>>

\* The strings written to the stdin pipe of process p.
WrittenTo(p) == {stdinData[p][i] : i \in 1..Len(stdinData[p])}

\* C12: an input request for a registered pid puts its bytes into the
\* process's buffered writer and flushes it.  It answers 200 only when the
\* bytes have reached the stdin pipe, answers 500 when the write or the
\* flush fails, and changes neither registry.
C12_InjectWritesAndFlushes ==
    [][\A r \in Req :
          LET p == input[r].Pid IN
          /\ (pc[r] = "iwrite" /\ pc'[r] # "iwrite")
                => /\ \/ pc'[r] = "done" /\ result'[r] = "500"
                      \/ /\ pc'[r] = "iflush"
                         /\ stdinBuf'[p].buf = Append(stdinBuf[p].buf, input[r].Input)
                 /\ UNCHANGED <<cmdWriterCache, processes>>
          /\ (pc[r] = "iflush" /\ pc'[r] # "iflush")
                => /\ pc'[r] = "done"
                   /\ result'[r] \in {"200", "500"}
                   /\ result'[r] = "200"
                        => /\ stdinData'[p] = stdinData[p] \o stdinBuf[p].buf
                           /\ stdinBuf'[p] = NoWriter
                           /\ input[r].Input \in WrittenTo(p)'
                   /\ result'[r] = "500" => stdinData'[p] = stdinData[p]
                   /\ UNCHANGED <<cmdWriterCache, processes>>]_vars

\* An input request for a running registered process was answered 200 and
\* its bytes are in the process's stdin pipe.
C12_Witness ==
    \E r \in Req :
        /\ req[r].method = "INPUT" /\ result[r] = "200"
        /\ input[r].Input \in WrittenTo(input[r].Pid)
        /\ stdinBuf[input[r].Pid].buf = <<>>

\* The process ended between the lookup and the flush: 500.
C12_FailureSeen ==
    \E r \in Req :
        /\ req[r].method = "INPUT" /\ result[r] = "500"
        /\ proc[input[r].Pid] = "exited"

\* C13: a listing answers one element for each entry of the session map,
\* with the entry's identifier and display name; for an empty map it answers
\* the single element "default".  The answer is never empty and the listing
\* changes nothing but the request's own result.
C13_ListingMatchesRegistry ==
    [][\A r \in Req :
          (pc[r] = "list" /\ pc'[r] # "list")
              => LET L == listing'[r]
                     m == cmdWriterCache
                 IN /\ Len(L) >= 1
                    /\ DOMAIN m = {} =>
                          /\ Len(L) = 1
                          /\ L[1].TerminalId = "default"
                    /\ DOMAIN m # {} =>
                          /\ Len(L) = Cardinality(DOMAIN m)
                          /\ \A k \in DOMAIN m :
                                Cardinality({i \in DOMAIN L :
                                    /\ L[i].TerminalId = k
                                    /\ L[i].TerminalName = req[m[k].Writer].TerminalName}) = 1
                    /\ UNCHANGED <<regVars, childVars, pipeVars, goVars, events, ctxDone>>]_vars

\* A listing has answered the live terminal of another request, with the
\* identifier and the display name that request gave.
C13_Witness ==
    \E r \in Req :
        /\ req[r].method = "GET" /\ pc[r] = "done"
        /\ \E q \in Req :
              listing[r] = <<[TerminalId |-> req[q].TerminalId, TerminalName |-> TermName(q)]>>

\* C14: once a POST q has found the session of process r and written to it,
\* the frames for r's output are written to the response of q, the most
\* recent request for the terminal, and no longer to the response of r.
C14_OutputOnLatestStream ==
    [][\A r, q \in Req :
          (q # r /\ result[q] = "written" /\ c[q].Writer = r /\ events'[r] # events[r])
              => /\ events'[q] # events[q]
                 /\ cmdWriterCache[req[q].TerminalId].ResponseWriter = q]_vars

\* C15: the response of a one-shot execution has exitCode 0 and no error when
\* the command exited cleanly, the command's own code (3) when it exited with
\* a nonzero code, and -1 with an error when the run ended in another way;
\* its stdout and stderr are all the lines written to each pipe.
C15_OneShotResponse ==
    \A r \in Req :
        resp[r] # NoResp =>
            /\ status[r] = "ok" => resp[r].ExitCode = 0 /\ resp[r].Error = ""
            /\ status[r] = "code" => resp[r].ExitCode = 3
            /\ status[r] \notin {"ok", "code"} =>
                   resp[r].ExitCode = -1 /\ resp[r].Error # ""
            /\ resp[r].Stdout = written[r]["stdout"]
            /\ resp[r].Stderr = written[r]["stderr"]

\* A one-shot command wrote a line and exited with code 3, and the response
\* carries both.
C15_Witness ==
    \E r \in Req :
        /\ resp[r] # NoResp /\ status[r] = "code" /\ resp[r].ExitCode = 3
        /\ resp[r].Stdout + resp[r].Stderr = 1

\* C16: every one-shot request gets a response: the command exits on its own,
\* or the deadline passes, the process is killed and the response has a
\* nonzero exitCode and a non-empty error.
C16_OneShotResponds ==
    \A r \in Req : (req[r].method = "EXEC") ~> (resp[r] # NoResp)

\* The request r takes part in the step: its handler, its process or one of
\* its goroutines moves.
StepOf(r) ==
    \/ pc'[r] # pc[r]
    \/ proc'[r] # proc[r]
    \/ <<orphan[r], written[r], captured[r], resp[r]>>' #
           <<orphan[r], written[r], captured[r], resp[r]>>
    \/ <<conn[r], ptmx[r], toPty[r], toWS[r]>>' # <<conn[r], ptmx[r], toPty[r], toWS[r]>>
    \/ <<wsIn[r], ptyIn[r], ptyOut[r], wsOut[r]>>' # <<wsIn[r], ptyIn[r], ptyOut[r], wsOut[r]>>

\* C17: a one-shot execution and a pty bridge connection never access the
\* session map or the process manager: the process each starts is registered
\* in neither, and none of their steps changes either, whatever sessions the
\* streaming endpoint has live.
C17_SideEndpointsLeaveRegistries ==
    [][\A r \in Req :
          req[r].method \in {"EXEC", "WS"} =>
              /\ r \notin processes
              /\ \A t \in DOMAIN cmdWriterCache : cmdWriterCache[t].Writer # r
              /\ pc[r] \notin MapReadPC \cup MapWritePC \cup {"ilookup"}
              /\ StepOf(r) => UNCHANGED <<cmdWriterCache, processes, pmDeletes>>]_vars

\* A one-shot command has run to its response while the session of a
\* streaming request is live and registered.
C17_Witness ==
    \E r, q \in Req :
        /\ req[r].method = "EXEC" /\ resp[r] # NoResp /\ proc[r] = "exited"
        /\ q \in processes /\ proc[q] = "running"
        /\ req[q].TerminalId \in DOMAIN cmdWriterCache

\* The bridge of request r is torn down: the pty closed, the shell gone and
\* the connection closed.
TornDown(r) == ptmx[r] = "closed" /\ proc[r] = "exited" /\ conn[r] = "closed"

\* C18: once one copying direction of a bridge has ended with a read error,
\* the bridge is torn down, also when the other direction is blocked in its
\* read.
C18_ReadErrorTearsDown ==
    \A r \in Req :
        (toPty[r].st = "readErr" \/ toWS[r].st = "readErr") ~> TornDown(r)

\* The first n bytes a producer sends.
Iota(n) == [i \in 1..n |-> i]

\* The bytes of a sequence of messages, in order.
RECURSIVE Concat(_)
Concat(ms) == IF ms = <<>> THEN <<>> ELSE Head(ms) \o Concat(Tail(ms))

C19_OutputSeen == \E r \in Req : Concat(wsOut[r]) = <<1, 2>> /\ Len(wsOut[r]) = 1

\* C20: a streaming request that fails to create a pipe or to start its
\* process is answered 500; no frame has been written to its response, it
\* has no process, and neither the process manager nor the session map has
\* an entry of it.
C20_SpawnFailureLeavesNothing ==
    \A r \in Req :
        (req[r].method = "POST" /\ result[r] = "500") =>
            /\ pc[r] = "done"
            /\ events[r] = <<>>
            /\ proc[r] = "none"
            /\ r \notin processes
            /\ pmDeletes[r] = <<>>
            /\ \A t \in DOMAIN cmdWriterCache : cmdWriterCache[t].Writer # r

\* A streaming request failed to start while another terminal's session was
\* live: the registries hold that session only.
C20_Witness ==
    \E r, q \in Req :
        /\ req[r].method = "POST" /\ result[r] = "500"
        /\ processes = {q} /\ DOMAIN cmdWriterCache = {req[q].TerminalId}

\* The endpoint, method and body of request r, as it arrived.
EndpointOf(r) ==
    IF raw[r] # NoRaw THEN raw[r].endpoint
    ELSE CASE req[r].method \in {"POST", "DELETE", "GET"} -> "stream"
           [] req[r].method = "INPUT" -> "input"
           [] req[r].method = "EXEC" -> "exec"
           [] OTHER -> "ws"
MethodOf(r) ==
    IF raw[r] # NoRaw THEN raw[r].method
    ELSE CASE req[r].method \in {"POST", "DELETE", "GET"} -> req[r].method
           [] req[r].method = "WS" -> "GET"
           [] OTHER -> "POST"
BodyOf(r) == IF raw[r] # NoRaw THEN raw[r].body ELSE "json"

\* The methods an endpoint serves, and whether it decodes the body.
Supported(e) ==
    CASE e = "stream" -> {"POST", "GET", "DELETE", "OPTIONS"}
      [] e = "ws" -> {"GET"}
      [] OTHER -> {"POST", "OPTIONS"}
ReadsBody(e, m) == e # "ws" /\ (m = "POST" \/ (e = "stream" /\ m = "DELETE"))

\* The step answers request r with the status code and touches no process,
\* no input stream and no registry.
AnsweredOnly(r, code) ==
    /\ result'[r] = code
    /\ pc'[r] = "done"
    /\ UNCHANGED <<regVars, childVars, pipeVars, stdinBuf, events>>

C22_EmptyCommandRejected ==
    \A r \in Req :
        (req[r].method = "POST" /\ req[r].Cmd = "") =>
            /\ proc[r] = "none"
            /\ r \notin processes
            /\ \A t \in DOMAIN cmdWriterCache : cmdWriterCache[t].Writer # r
            /\ events[r] = <<>>
\* The route and the headers of the answer to request r.
RouteOf(r) == IF raw[r] # NoRaw THEN Route(raw[r].endpoint, raw[r].method, raw[r].body)
              ELSE "accept"
HeadersOf(r) == ResponseHeaders(EndpointOf(r), MethodOf(r), RouteOf(r))

\* The methods an endpoint accepts and acts on.
Accepted(e) == {m \in HttpMethods : \E b \in Bodies : Route(e, m, b) = "accept"}

\* C23: every answer of the three HTTP endpoints allows any origin, and the
\* answer to a pre-flight advertises every method the endpoint accepts and
\* the Content-Type header.
C23_CrossOriginEverywhere ==
    \A r \in Req :
        (pc[r] # "idle" /\ EndpointOf(r) \in Endpoints) =>
            /\ HeadersOf(r).AllowOrigin = "*"
            /\ MethodOf(r) = "OPTIONS" =>
                   /\ Accepted(EndpointOf(r)) \subseteq HeadersOf(r).AllowMethods
                   /\ "Content-Type" \in HeadersOf(r).AllowHeaders

\* conn.WriteJSON(msg): the payload is the JSON text of the message.  Bytes
\* the shell wrote are numbered from 1; the text of a message of the k-th
\* type is the one byte -k, which no shell output contains.
WSMessageTypes == <<"start", "pid", "stdout", "stderr", "end", "error">>
sendWSMessage(type) ==
    <<0 - (CHOOSE k \in DOMAIN WSMessageTypes : WSMessageTypes[k] = type)>>

\* C24: what the server sends on a WebSocket connection is a sequence of
\* protocol messages that begins with `start`.
C24_WSProtocolOrder ==
    \A r \in Req :
        wsOut[r] # <<>> =>
            wsOut[r][1] = sendWSMessage("start")
\* The goroutines that hold processManager.mutex.
Holders == mutex.writer \cup mutex.readers

\* C25: a goroutine inserts into or deletes from the process map only while
\* it alone holds the write lock, reads it only while it holds the read lock
\* and nobody holds the write lock, and holds no lock at a blocking statement
\* (cmd.Wait, channel send, select, pipe write or flush) or after it returned.
C25_LockDiscipline ==
    \A g \in Goroutines :
        /\ at[g] \in AccessLines => mutex.writer = {g} /\ mutex.readers = {}
        /\ at[g] = 422 => g \in mutex.readers /\ mutex.writer = {}
        /\ at[g] \in BlockingLines \cup {NotStarted, Finished} => g \notin Holders

\* A waiter is blocked on its send and an input handler on its pipe write
\* while another handler holds the write lock at the insert.
C25_Witness ==
    /\ at[<<"waiter", 1>>] = 345
    /\ at[<<"input", 1>>] = 431
    /\ at[<<"handler", 2>>] = 280
    /\ mutex.writer = {<<"handler", 2>>}

\* C26: while the coordinating loop of request r runs, cmdWriterCache has an
\* entry for r's terminal id whose Writer is the stdin pipe of r's process.
C26_SessionHeldWhileLooping ==
    \A r \in Req :
        pc[r] = "loop" =>
            /\ req[r].TerminalId \in DOMAIN cmdWriterCache
            /\ cmdWriterCache[req[r].TerminalId].Writer = r

\* C27: the delete at the end of request r's handler removes no entry that
\* another request, whose loop is still running, inserted for its own process.
C27_RemovesOnlyOwnEntry ==
    [][\A r \in Req :
          (pc[r] = "delFinal" /\ pc'[r] = "done") =>
              \A t \in DOMAIN cmdWriterCache :
                  (cmdWriterCache[t].Writer # r /\ pc[cmdWriterCache[t].Writer] = "loop")
                      => t \in DOMAIN cmdWriterCache']_vars

\* C28: an end frame is on the stream of request r only once cmd.Wait() has
\* returned for r's process, and it carries the exit code and the error text
\* of that process's exit.
C28_EndAfterWait ==
    \A r \in Req :
        \A i \in DOMAIN events[r] :
            events[r][i].type = "end" =>
                /\ wt[r] \in {"remove", "send", "end"}
                /\ events[r][i].exitCode = ExitCodeOf(status[r])
                /\ events[r][i].error = ErrorOf(status[r])

\* The three goroutines started for request r's process have ended: both
\* readers closed their channels and the waiter got past its send.
TasksEnded(r) == wt[r] = "end" /\ \A s \in Streams : rd[r][s].st = "closed"

\* C29: once the loop of request r has stopped, the stdout reader, the stderr
\* reader and the waiter of its process all end, unless the server aborts.
C29_TasksTerminate ==
    \A r \in Req :
        (wt[r] # "off" /\ pc[r] \in {"delFinal", "done"}) ~> (crashed \/ TasksEnded(r))

\* The number of frames of kind s on the stream of request r.
RECURSIVE Frames(_, _)
Frames(ev, s) ==
    IF ev = <<>> THEN 0
    ELSE (IF Head(ev).type = s THEN 1 ELSE 0) + Frames(Tail(ev), s)

\* C30: when the end frame is on the stream of request r, every line a
\* reader of r's process has read is on the stream as a frame before it.
C30_NoLineDropped ==
    \A r \in Req :
        (events[r] # <<>> /\ events[r][Len(events[r])].type = "end") =>
            \A s \in Streams : Frames(events[r], s) = produced[r][s]

\* The lines of the frames of kind s on a stream, in the order of the frames.
RECURSIVE Lines(_, _)
Lines(ev, s) ==
    IF ev = <<>> THEN <<>>
    ELSE (IF Head(ev).type = s THEN <<Head(ev).data>> ELSE <<>>) \o Lines(Tail(ev), s)

\* C31: on the stream of request r the stdout frames carry the lines read
\* from the stdout pipe in the order they were read, each once, and so do
\* the stderr frames for the stderr pipe.
C31_LinesInOrder ==
    \A r \in Req, s \in Streams :
        /\ Lines(events[r], s) = Iota(Len(Lines(events[r], s)))
        /\ Len(Lines(events[r], s)) <= produced[r][s]

\* Two stdout lines with a stderr line between them are on the stream.
C31_Witness ==
    /\ Lines(events[1], "stdout") = <<1, 2>>
    /\ Lines(events[1], "stderr") = <<1>>
    /\ \E i \in DOMAIN events[1] :
        /\ events[1][i].type = "stderr"
        /\ i > 1 /\ events[1][i - 1].type = "stdout"
        /\ i < Len(events[1]) /\ events[1][i + 1].type = "stdout"

\* C32: the loop of request r never takes a pass on a channel that its
\* reader has closed.
C32_NoWakeOnClosedQueue == \A r \in Req : spins[r] = 0
\* C33: when two concurrent injections for the pid of process 1 have both
\* been answered 200, the process's stdin pipe holds the bytes of one input
\* followed by the bytes of the other.
C33_InjectionsSerialized ==
    (\A i \in Injectors : inj[i] = "200") =>
        stdinData[1] \in {InputOf(1) \o InputOf(2), InputOf(2) \o InputOf(1)}

\* C34: whenever bytes reach the stdin pipe of process p, they are the command
\* of a request for the terminal id p was spawned for; and whenever a frame
\* is written on the stream of request r, it is a frame of r's own process
\* (its start frame names r's process).
C34_TerminalIsolation ==
    [][/\ \A p \in Req :
            stdinData'[p] # stdinData[p] =>
                \E r \in Req :
                    /\ pc[r] = "write" /\ pc'[r] = "done"
                    /\ req[r].TerminalId = req[p].TerminalId
                    /\ stdinData'[p] = Append(stdinData[p], req[r].Cmd \o "\n")
       /\ \A r \in Req :
            events'[r] # events[r] =>
                /\ req[r].method = "POST"
                /\ proc'[r] # "none"
                /\ \A i \in DOMAIN events'[r] :
                       events'[r][i].type = "start" => events'[r][i].pid = r]_vars

\* A command for t1 has been written to the process spawned for t1, which is
\* still running.
C34_Witness ==
    /\ result[2] = "written"
    /\ req[2].TerminalId = req[1].TerminalId
    /\ proc[1] = "running"
    /\ stdinData[1] = <<req[2].Cmd \o "\n">>

\* C35: the DELETE of a terminal id that has no entry in cmdWriterCache is
\* answered without an error and changes neither registry, no process, no
\* pipe and no stream.
C35_DeleteAbsentIsNoOp ==
    [][\A r \in Req :
          (pc[r] = "dlookup" /\ pc'[r] # pc[r]
             /\ req[r].TerminalId \notin DOMAIN cmdWriterCache) =>
              /\ pc'[r] = "done"
              /\ result'[r] = "200"
              /\ UNCHANGED <<regVars, childVars, pipeVars, goVars, events, ctxDone>>]_vars

\* A DELETE for t2 has been answered while the process of t1 runs and t1 is
\* registered.
C35_Witness ==
    /\ req[2].method = "DELETE" /\ req[2].TerminalId = "t2"
    /\ result[2] = "200"
    /\ proc[1] = "running" /\ stdinPipe[1] = "open"
    /\ DOMAIN cmdWriterCache = {"t1"}
    /\ processes = {1}
====
